---- MODULE Spec2Model ----
(***************************************************************************)
(* Model of the credential / billing core of cursor-usage-monitor          *)
(* (CursorApiService, src/unnamed/part_003 lines 582-1442).                *)
(*                                                                         *)
(* Strings are sequences of one-character strings, so that percent         *)
(* decoding, splitting, base64 decoding, JSON parsing and the user_ regex  *)
(* are computed the way the code computes them.                            *)
(***************************************************************************)
EXTENDS Integers, Sequences, FiniteSets, TLC

VARIABLES
    sessionToken,           \* CursorApiService.sessionToken (NullStr = null)
    userId,                 \* CursorApiService.userId       (NullStr = null)
    detectedBillingModel,   \* CursorApiService.detectedBillingModel (NoModel = null)
    secret,                 \* context.secrets slot 'cursorSessionToken' (NullStr = absent)
    call,                   \* one record per flow of control: the service call it is in
    lastDetect,             \* history: the detectBillingModel call that completed last
    userIdOf,               \* extractUserId on each credential of the environment,
                            \* computed once in Init and constant from there on
    fnArg,                  \* argument of the pure function under check
    fnRes,                  \* its result
    fnPc,                   \* "ready" before the function is applied, "done" after;
                            \* "unused" in the specification of the service
    refreshTimer,           \* extension.ts refreshTimer: <<>> or <<period in ms>>
    cachedUsageData,        \* extension.ts cachedUsageData: <<>> or <<UsageData>>
    cachedCombinedData,     \* StatusBarManager.cachedCombinedData: <<>> or <<record>>
    statusBarItem,          \* StatusBarManager.statusBarItem: text, command, background
    configuration,          \* the workspace configuration 'cursorUsage'
    history                 \* history of the flows, for the properties only

vars == <<sessionToken, userId, detectedBillingModel, secret, call, lastDetect,
          userIdOf, fnArg, fnRes, fnPc,
          refreshTimer, cachedUsageData, cachedCombinedData, statusBarItem,
          configuration, history>>

serviceVars == <<sessionToken, userId, detectedBillingModel, secret, call, lastDetect>>

fnVars == <<userIdOf, fnArg, fnRes, fnPc>>

extensionVars == <<refreshTimer, cachedUsageData, cachedCombinedData, statusBarItem,
                   configuration, history>>

-----------------------------------------------------------------------------
(* Characters and strings *)

\* JavaScript null / undefined for a string-valued slot.
NullStr == <<"<null>">>

\* A character above printable ASCII (DEL, U+FFFD or any non-ASCII code point)
\* and a control character below 32; the code never tells two of a kind apart.
NonAscii == "<non-ascii>"

Control == "<control>"

\* Printable ASCII, codes 32..126, in code order.
Ascii ==
    << " ", "!", "\"", "#", "$", "%", "&", "'", "(", ")", "*", "+", ",", "-", ".", "/",
       "0", "1", "2", "3", "4", "5", "6", "7", "8", "9", ":", ";", "<", "=", ">", "?",
       "@", "A", "B", "C", "D", "E", "F", "G", "H", "I", "J", "K", "L", "M", "N", "O",
       "P", "Q", "R", "S", "T", "U", "V", "W", "X", "Y", "Z", "[", "\\", "]", "^", "_",
       "<backtick>", "a", "b", "c", "d", "e", "f", "g", "h", "i", "j", "k", "l", "m", "n", "o",
       "p", "q", "r", "s", "t", "u", "v", "w", "x", "y", "z", "{", "|", "}", "~" >>

CharOf(b) == IF b \in 32..126 THEN Ascii[b - 31] ELSE IF b < 32 THEN Control ELSE NonAscii

CodeOf(c) == 31 + (CHOOSE i \in 1..Len(Ascii) : Ascii[i] = c)

Digits == {"0", "1", "2", "3", "4", "5", "6", "7", "8", "9"}

UpperLetters == {Ascii[i] : i \in 34..59}

LowerLetters == {Ascii[i] : i \in 66..91}

\* The character class [A-Za-z0-9].
IsAlnum(c) == c \in Digits \cup UpperLetters \cup LowerLetters

IsHex(c) == c \in Digits \cup {"A", "B", "C", "D", "E", "F", "a", "b", "c", "d", "e", "f"}

HexVal(c) ==
    IF c \in Digits THEN CodeOf(c) - 48
    ELSE IF c \in UpperLetters THEN CodeOf(c) - 55
    ELSE CodeOf(c) - 87

\* String.prototype.indexOf(sub): first 1-based position of sub in s, 0 if none.
IndexOf(s, sub) ==
    LET hits == {i \in 1..(Len(s) - Len(sub) + 1) : SubSeq(s, i, i + Len(sub) - 1) = sub}
    IN  IF hits = {} THEN 0 ELSE CHOOSE i \in hits : \A j \in hits : i <= j

\* String.prototype.includes(sub).
Includes(s, sub) == IndexOf(s, sub) # 0

\* String.prototype.split(sep): the pieces between the occurrences of sep.
RECURSIVE Split(_, _)
Split(s, sep) ==
    LET i == IndexOf(s, sep)
    IN  IF i = 0 THEN <<s>>
        ELSE <<SubSeq(s, 1, i - 1)>> \o Split(SubSeq(s, i + Len(sep), Len(s)), sep)

\* String.prototype.replace(/c/g, d) for single characters.
ReplaceAll(s, c, d) == [i \in 1..Len(s) |-> IF s[i] = c THEN d ELSE s[i]]

-----------------------------------------------------------------------------
(* decodeURIComponent *)

EscapeAt(s, i) ==
    /\ i + 2 <= Len(s)
    /\ s[i] = "%"
    /\ IsHex(s[i + 1])
    /\ IsHex(s[i + 2])

ByteAt(s, i) == 16 * HexVal(s[i + 1]) + HexVal(s[i + 2])

\* Length of the UTF-8 sequence a byte starts; 0 for a byte that cannot start one.
Utf8Len(b) ==
    IF b < 128 THEN 1
    ELSE IF b \in 194..223 THEN 2
    ELSE IF b \in 224..239 THEN 3
    ELSE IF b \in 240..244 THEN 4
    ELSE 0

\* decodeURIComponent(s) from position i on: [ok |-> FALSE] stands for URIError.
RECURSIVE DecodeFrom(_, _, _)
DecodeFrom(s, i, acc) ==
    IF i > Len(s) THEN [ok |-> TRUE, str |-> acc]
    ELSE IF s[i] # "%" THEN DecodeFrom(s, i + 1, Append(acc, s[i]))
    ELSE IF ~EscapeAt(s, i) THEN [ok |-> FALSE, str |-> <<>>]
    ELSE LET b == ByteAt(s, i)
             n == Utf8Len(b)
         IN  IF n = 0 THEN [ok |-> FALSE, str |-> <<>>]
             ELSE IF n = 1 THEN DecodeFrom(s, i + 3, Append(acc, CharOf(b)))
             ELSE IF \A k \in 1..(n - 1) :
                         EscapeAt(s, i + 3 * k) /\ ByteAt(s, i + 3 * k) \in 128..191
                  THEN DecodeFrom(s, i + 3 * n, Append(acc, NonAscii))
                  ELSE [ok |-> FALSE, str |-> <<>>]

\* Faulty variant: the token is used as it comes, without percent-decoding.
decodeURIComponentSkipped(s) == [ok |-> TRUE, str |-> s]

decodeURIComponent(s) == DecodeFrom(s, 1, <<>>)

-----------------------------------------------------------------------------
(* Buffer.from(base64, 'base64').toString() *)

B64Chars ==
    << "A", "B", "C", "D", "E", "F", "G", "H", "I", "J", "K", "L", "M", "N", "O", "P",
       "Q", "R", "S", "T", "U", "V", "W", "X", "Y", "Z", "a", "b", "c", "d", "e", "f",
       "g", "h", "i", "j", "k", "l", "m", "n", "o", "p", "q", "r", "s", "t", "u", "v",
       "w", "x", "y", "z", "0", "1", "2", "3", "4", "5", "6", "7", "8", "9", "+", "/" >>

\* Node accepts the URL-safe characters too; every other character is skipped.
IsB64(c) == c \in {B64Chars[i] : i \in 1..64} \cup {"-", "_"}

B64Val(c) ==
    IF c = "-" THEN 62
    ELSE IF c = "_" THEN 63
    ELSE (CHOOSE i \in 1..64 : B64Chars[i] = c) - 1

\* The 6-bit values of the characters before the first '=', invalid ones skipped.
B64Values(s) ==
    LET stop == IndexOf(s, <<"=">>)
        body == IF stop = 0 THEN s ELSE SubSeq(s, 1, stop - 1)
    IN  [i \in 1..Len(SelectSeq(body, IsB64)) |-> B64Val(SelectSeq(body, IsB64)[i])]

\* Byte number k (from 1) of the bit string formed by the 6-bit values v.
B64Byte(v, k) ==
    LET g == 4 * ((k - 1) \div 3)
        r == (k - 1) % 3
    IN  IF r = 0 THEN v[g + 1] * 4 + (v[g + 2] \div 16)
        ELSE IF r = 1 THEN (v[g + 2] % 16) * 16 + (v[g + 3] \div 4)
        ELSE (v[g + 3] % 4) * 64 + v[g + 4]

Base64ToString(s) ==
    LET v == B64Values(s)
    IN  [k \in 1..((Len(v) * 6) \div 8) |-> CharOf(B64Byte(v, k))]

\* while (base64.length % 4) base64 += '='
PadBase64(s) == s \o [i \in 1..((4 - (Len(s) % 4)) % 4) |-> "="]

-----------------------------------------------------------------------------
(* JSON.parse, for texts without whitespace, escapes, arrays and fractions:   *)
(* null, true, false, non-negative integers, strings and (nested) objects.    *)
(* A JavaScript value is [t, s, m]: its type, its text (strings, numbers,     *)
(* booleans) and its members (objects, as a sequence of <<key, value>>).      *)

JsNull == [t |-> "null", s |-> <<>>, m |-> <<>>]

JsUndefined == [t |-> "undefined", s |-> <<>>, m |-> <<>>]

JsString(str) == [t |-> "string", s |-> str, m |-> <<>>]

ParseFail == [ok |-> FALSE, v |-> JsNull, next |-> 0]

StartsAt(s, i, word) ==
    /\ i + Len(word) - 1 <= Len(s)
    /\ SubSeq(s, i, i + Len(word) - 1) = word

\* One past the last digit of the run of digits starting at i.
RECURSIVE DigitsEnd(_, _)
DigitsEnd(s, i) == IF i <= Len(s) /\ s[i] \in Digits THEN DigitsEnd(s, i + 1) ELSE i

\* A string literal opening at i: up to the next quote, no escape, no control character.
ParseStringAt(s, i) ==
    LET rest  == SubSeq(s, i + 1, Len(s))
        close == IndexOf(rest, <<"\"">>)
        body  == SubSeq(rest, 1, close - 1)
    IN  IF i > Len(s) \/ s[i] # "\"" \/ close = 0 THEN ParseFail
        ELSE IF \E k \in 1..Len(body) : body[k] \in {"\\", Control} THEN ParseFail
        ELSE [ok |-> TRUE, v |-> JsString(body), next |-> i + close + 1]

RECURSIVE ParseValueAt(_, _), ParseMembersAt(_, _, _)
ParseValueAt(s, i) ==
    IF i > Len(s) THEN ParseFail
    ELSE IF s[i] = "\"" THEN ParseStringAt(s, i)
    ELSE IF StartsAt(s, i, <<"n", "u", "l", "l">>)
         THEN [ok |-> TRUE, v |-> JsNull, next |-> i + 4]
    ELSE IF StartsAt(s, i, <<"t", "r", "u", "e">>)
         THEN [ok |-> TRUE, v |-> [t |-> "boolean", s |-> <<"t">>, m |-> <<>>], next |-> i + 4]
    ELSE IF StartsAt(s, i, <<"f", "a", "l", "s", "e">>)
         THEN [ok |-> TRUE, v |-> [t |-> "boolean", s |-> <<>>, m |-> <<>>], next |-> i + 5]
    ELSE IF s[i] \in Digits
         THEN LET e == DigitsEnd(s, i)
              IN  IF s[i] = "0" /\ e > i + 1 THEN ParseFail
                  ELSE [ok |-> TRUE,
                        v |-> [t |-> "number", s |-> SubSeq(s, i, e - 1), m |-> <<>>],
                        next |-> e]
    ELSE IF s[i] = "{"
         THEN IF i + 1 <= Len(s) /\ s[i + 1] = "}"
              THEN [ok |-> TRUE, v |-> [t |-> "object", s |-> <<>>, m |-> <<>>], next |-> i + 2]
              ELSE ParseMembersAt(s, i + 1, <<>>)
    ELSE ParseFail

\* The members of an object from position i on (after '{' or ','), acc those read so far.
ParseMembersAt(s, i, acc) ==
    LET key == ParseStringAt(s, i)
    IN  IF ~key.ok \/ key.next > Len(s) \/ s[key.next] # ":" THEN ParseFail
        ELSE LET val == ParseValueAt(s, key.next + 1)
                 all == Append(acc, <<key.v.s, val.v>>)
             IN  IF ~val.ok \/ val.next > Len(s) THEN ParseFail
                 ELSE IF s[val.next] = ","  THEN ParseMembersAt(s, val.next + 1, all)
                 ELSE IF s[val.next] = "}"
                      THEN [ok |-> TRUE, v |-> [t |-> "object", s |-> <<>>, m |-> all],
                            next |-> val.next + 1]
                 ELSE ParseFail

\* JSON.parse(text): [ok |-> FALSE] stands for SyntaxError.
JSONParse(text) ==
    LET r == ParseValueAt(text, 1)
    IN  IF r.ok /\ r.next = Len(text) + 1 THEN r ELSE ParseFail

\* value[key] for a parsed object: the last member of that name, else undefined.
Member(value, key) ==
    LET hits == {k \in 1..Len(value.m) : value.m[k][1] = key}
    IN  IF value.t # "object" \/ hits = {} THEN JsUndefined
        ELSE value.m[CHOOSE k \in hits : \A j \in hits : j <= k][2]

\* JavaScript truthiness.
Truthy(value) ==
    CASE value.t \in {"null", "undefined"} -> FALSE
      [] value.t = "string"  -> value.s # <<>>
      [] value.t = "number"  -> value.s # <<"0">>
      [] value.t = "boolean" -> value.s # <<>>
      [] OTHER -> TRUE

-----------------------------------------------------------------------------
(* str.match(/user_[A-Za-z0-9]+/) *)

UserPrefix == <<"u", "s", "e", "r", "_">>

\* One past the last character of the run of [A-Za-z0-9] starting at i.
RECURSIVE AlnumEnd(_, _)
AlnumEnd(s, i) == IF i <= Len(s) /\ IsAlnum(s[i]) THEN AlnumEnd(s, i + 1) ELSE i

\* Start positions at which the whole pattern matches.
UserMatchStarts(s) ==
    {i \in 1..Len(s) : StartsAt(s, i, UserPrefix) /\ AlnumEnd(s, i + 5) > i + 5}

\* Faulty variant: the rightmost match instead of the leftmost.
MatchUserLast(s) ==
    LET starts == UserMatchStarts(s)
        last   == CHOOSE i \in starts : \A j \in starts : i >= j
    IN  IF starts = {} THEN NullStr ELSE SubSeq(s, last, AlnumEnd(s, last + 5) - 1)

\* match[0] of the leftmost match (the + is greedy); NullStr when match is null.
MatchUser(s) ==
    LET starts == UserMatchStarts(s)
        first  == CHOOSE i \in starts : \A j \in starts : i <= j
    IN  IF starts = {} THEN NullStr ELSE SubSeq(s, first, AlnumEnd(s, first + 5) - 1)

-----------------------------------------------------------------------------
(* CursorApiService.extractUserId *)

Colons == <<":", ":">>

\* The try block around JSON.parse and payload.sub.match turns SyntaxError and
\* TypeError (payload null, sub not a string) into null.
extractUserId(token) ==
    LET dec          == decodeURIComponent(token)
        decodedToken == IF dec.ok THEN dec.str ELSE token
        parts        == Split(decodedToken, <<".">>)
    IN  IF Includes(decodedToken, Colons) THEN Split(decodedToken, Colons)[1]
        ELSE IF Len(parts) = 3
             THEN LET base64  == PadBase64(ReplaceAll(ReplaceAll(parts[2], "-", "+"), "_", "/"))
                      payload == JSONParse(Base64ToString(base64))
                      sub     == Member(payload.v, <<"s", "u", "b">>)
                  IN  IF ~payload.ok THEN NullStr
                      ELSE IF payload.v.t = "null" THEN NullStr
                      ELSE IF ~Truthy(sub) THEN NullStr
                      ELSE IF sub.t # "string" THEN NullStr
                      ELSE MatchUser(sub.s)
        ELSE NullStr

\* if (userId) / if (!userId): null and the empty string are both falsy.
TruthyStr(str) == str # NullStr /\ str # <<>>

-----------------------------------------------------------------------------
(* Inputs for extractUserId *)

\* Longest token of the exhaustive enumeration.
MaxTokenLen == 4

\* Characters of the exhaustive enumeration: with them a token can hold "::",
\* the escapes %3A (':'), %33 ('3'), %A3 and %AA (URIError), a stray '%' and dots.
TokenChars == {"a", ":", "%", "3", "A", "."}

ShortTokens == UNION {[1..n -> TokenChars] : n \in 0..MaxTokenLen}

Quote == <<"\"">>

StrLit(str) == Quote \o str \o Quote

JsonObject(key, valueText) == <<"{">> \o StrLit(key) \o <<":">> \o valueText \o <<"}">>

SubKey == <<"s", "u", "b">>

Auth0 == <<"a", "u", "t", "h", "0", "|">>

\* Values of the sub field, each with the first match of user_[A-Za-z0-9]+ in
\* it written out by hand (NullStr: no match, or an empty sub).
SubCases ==
    { [sub |-> Auth0 \o UserPrefix \o <<"A", "B", "1", "2">>,
       user |-> <<"u", "s", "e", "r", "_", "A", "B", "1", "2">>],
      [sub |-> UserPrefix \o <<"a">>,
       user |-> <<"u", "s", "e", "r", "_", "a">>],
      [sub |-> UserPrefix \o <<"a", "-">> \o UserPrefix \o <<"b">>,
       user |-> <<"u", "s", "e", "r", "_", "a">>],
      [sub |-> <<"?", "?", "?">> \o UserPrefix \o <<"9", "z">> \o <<">", ">", ">">>,
       user |-> <<"u", "s", "e", "r", "_", "9", "z">>],
      [sub |-> Auth0 \o <<"x">>,             user |-> NullStr],
      [sub |-> UserPrefix,                   user |-> NullStr],
      [sub |-> UserPrefix \o <<"?", "x">>,   user |-> NullStr],
      [sub |-> <<>>,                         user |-> NullStr] }

\* Payload texts, each with the account id it carries: objects with a string
\* sub, and texts on which the lookup of sub fails (no sub, sub not a string,
\* not an object, not JSON at all).
PayloadCases ==
    {[text |-> JsonObject(SubKey, StrLit(c.sub)), user |-> c.user] : c \in SubCases}
    \cup { [text |-> <<"{">> \o StrLit(<<"i", "s", "s">>) \o <<":">> \o StrLit(<<"x">>) \o <<",">>
                     \o StrLit(SubKey) \o <<":">> \o StrLit(UserPrefix \o <<"b">>) \o <<"}">>,
            user |-> <<"u", "s", "e", "r", "_", "b">>] }
    \cup {[text |-> t, user |-> NullStr] : t \in
            { JsonObject(<<"i", "d">>, StrLit(UserPrefix \o <<"a">>)),
              JsonObject(SubKey, <<"5">>),
              JsonObject(SubKey, <<"n", "u", "l", "l">>),
              JsonObject(SubKey, JsonObject(<<"i", "d">>, StrLit(UserPrefix \o <<"a">>))),
              <<"{", "}">>,
              <<"n", "u", "l", "l">>,
              <<"5">>,
              StrLit(UserPrefix \o <<"a">>),
              <<"{">> \o StrLit(SubKey) \o <<":">> \o StrLit(UserPrefix \o <<"a">>),
              <<>> }}

UrlB64Chars == [i \in 1..64 |-> IF i = 63 THEN "-" ELSE IF i = 64 THEN "_" ELSE B64Chars[i]]

\* The unpadded base64url text of a string of printable ASCII, as a token issuer writes it.
Base64UrlEncode(text) ==
    LET byte(b) == IF b + 1 <= Len(text) THEN CodeOf(text[b + 1]) ELSE 0
        value(j) ==
            LET b == (6 * j) \div 8
                o == (6 * j) % 8
            IN  IF o = 0 THEN byte(b) \div 4
                ELSE IF o = 6 THEN (byte(b) % 4) * 16 + (byte(b + 1) \div 16)
                ELSE IF o = 4 THEN (byte(b) % 16) * 4 + (byte(b + 1) \div 64)
                ELSE byte(b) % 64
    IN  [k \in 1..((8 * Len(text) + 5) \div 6) |-> UrlB64Chars[value(k - 1) + 1]]

Dot == <<".">>

EncodedDot == <<"%", "2", "E">>

CookieId == UserPrefix \o <<"c">>

\* Tokens built around a payload: the signed-token shape with three segments
\* (dots literal or percent-encoded, or with an escape that cannot be decoded),
\* two and four segments, and the cookie shape with the account id in front
\* (separator literal or percent-encoded).  user is the account id the token
\* carries by construction, NullStr if none.
TokensAround(c) ==
    LET h == <<"h">>
        e == Base64UrlEncode(c.text)
        g == <<"s">>
    IN  { [token |-> h \o Dot \o e \o Dot \o g,                      user |-> c.user],
          [token |-> h \o EncodedDot \o e \o EncodedDot \o g,        user |-> c.user],
          [token |-> h \o Dot \o e \o Dot \o g \o <<"%">>,           user |-> c.user],
          [token |-> h \o Dot \o e,                                  user |-> NullStr],
          [token |-> h \o Dot \o e \o Dot \o g \o Dot \o g,          user |-> NullStr],
          [token |-> CookieId \o Colons \o h \o Dot \o e \o Dot \o g, user |-> CookieId],
          [token |-> CookieId \o <<"%", "3", "A", "%", "3", "A">> \o h \o Dot \o e \o Dot \o g,
           user |-> CookieId] }

SignedCases == UNION {TokensAround(c) : c \in PayloadCases}

\* A token too short to hold a payload with a sub carries no id in its middle segment.
ShortCases == {[token |-> t, user |-> NullStr] : t \in ShortTokens}

ExtractCases == ShortCases \cup SignedCases

-----------------------------------------------------------------------------
(* CursorApiService.detectBillingModel: the classification of a profile *)

Models == {"free", "pro", "business", "usage-based"}

\* detectedBillingModel === null
NoModel == "<none>"

\* A string field that is null or missing in the payload.
Absent == "<absent>"

\* JavaScript truthiness of a string field.
TruthyField(f) == f # Absent /\ f # ""

TeamTypes == {Absent, "", "business", "enterprise", "usage_based", "self_serve"}

MemberTypes == {Absent, "", "free", "free_trial", "pro", "hobby", "business", "enterprise", "ultra"}

\* StripeBillingInfo, the fields detectBillingModel reads.
Profiles ==
    [isTeamMember : BOOLEAN, teamMembershipType : TeamTypes, isOnBillableAuto : BOOLEAN,
     membershipType : MemberTypes, individualMembershipType : MemberTypes]

\* Faulty variant: 'enterprise' is not recognised as a business team.
ClassifyTeamNoEnterprise(info) ==
    IF info.teamMembershipType = "business" THEN "business"
    ELSE IF info.teamMembershipType = "usage_based" \/ info.isOnBillableAuto
         THEN "usage-based"
    ELSE "pro"

\* Lines 1184-1191: the team branch.
ClassifyTeam(info) ==
    IF info.teamMembershipType \in {"business", "enterprise"} THEN "business"
    ELSE IF info.teamMembershipType = "usage_based" \/ info.isOnBillableAuto
         THEN "usage-based"
    ELSE "pro"

\* Faulty variant: individualMembershipType takes precedence over membershipType.
ClassifyIndividualSwapped(info) ==
    LET memberType == IF TruthyField(info.individualMembershipType)
                      THEN info.individualMembershipType
                      ELSE info.membershipType
    IN  IF memberType \in {"free", "free_trial"} THEN "free"
        ELSE IF memberType \in {"pro", "hobby"} THEN "pro"
        ELSE IF memberType \in {"business", "enterprise"} THEN "business"
        ELSE "free"

\* Lines 1193-1206: the individual branch.
ClassifyIndividual(info) ==
    LET memberType == IF TruthyField(info.membershipType)
                      THEN info.membershipType
                      ELSE info.individualMembershipType
    IN  IF memberType \in {"free", "free_trial"} THEN "free"
        ELSE IF memberType \in {"pro", "hobby"} THEN "pro"
        ELSE IF memberType \in {"business", "enterprise"} THEN "business"
        ELSE "free"

\* Lines 1183-1206: the model detectBillingModel derives from a profile.
ClassifyBilling(info) ==
    IF info.isTeamMember /\ TruthyField(info.teamMembershipType)
    THEN ClassifyTeam(info)
    ELSE ClassifyIndividual(info)

-----------------------------------------------------------------------------
(* The extension around the service *)

\* getConfiguration() with no setting made: the defaults of lines 129-133.
DefaultConfiguration ==
    [refreshInterval |-> 60, billingModel |-> "pro", autoDetectToken |-> TRUE]

\* The status bar item as the constructor of StatusBarManager leaves it
\* (setLoading): its text, its command, and whether the warning background is on.
LoadingItem ==
    [text |-> <<"$(sync~spin) Cursor Usage">>, command |-> "cursorUsage.showDetails",
     background |-> "none"]

\* The module variables of extension.ts and the status bar before activation
\* has run any flow; the specifications of the service alone leave them so.
ExtensionNotStarted ==
    /\ refreshTimer = <<>>
    /\ cachedUsageData = <<>>
    /\ cachedCombinedData = <<>>
    /\ statusBarItem = LoadingItem
    /\ configuration = DefaultConfiguration
    /\ history = <<>>

-----------------------------------------------------------------------------
(* The service: CursorApiService and the flow of control that calls it *)

\* The flows of control that call the service.  This specification is the
\* service's contract call by call: a call runs to completion, through each of
\* its awaits, before the next call starts.
Procs == {"caller"}

\* Credentials the environment can hold: the cookie shape with a literal and
\* with a percent-encoded separator, a signed token, and two unusable ones
\* (no account id at all, and an empty account id).
TokCookie == <<"u", "1", ":", ":", "j">>

TokEncoded == <<"u", "2", "%", "3", "A", "%", "3", "A", "j">>

TokSigned ==
    <<"h">> \o Dot \o Base64UrlEncode(JsonObject(SubKey, StrLit(UserPrefix \o <<"a">>)))
            \o Dot \o <<"s">>

TokJunk == <<"j">>

TokEmptyId == <<":", ":", "j">>

ServiceTokens == {TokCookie, TokEncoded, TokSigned, TokJunk, TokEmptyId}

\* extractUserId on the credentials above and on null.
UserIds == [t \in ServiceTokens \cup {NullStr} |-> extractUserId(t)]

\* Profile payloads the upstream may answer with: every decision of ClassifyBilling.
SampleProfiles ==
    {info \in Profiles :
        /\ info.membershipType \in {Absent, "pro"}
        /\ info.individualMembershipType \in {"free", "enterprise"}
        /\ info.teamMembershipType \in {Absent, "enterprise", "usage_based", "self_serve"}}

\* How an HTTP exchange of makeApiRequest can end: 200 with a JSON object,
\* 200 with a falsy JSON value (null, 0, ""), 200 with a body that is not JSON,
\* 401/403, another status, a transport error, the 10 s timeout.
HttpOutcomes == {"ok", "empty", "parse", "auth", "status", "network", "timeout"}

\* No detectBillingModel call has completed since the last logout.
NoDetect == [result |-> "none", obtained |-> FALSE, sent |-> FALSE]

NoPrev == [op |-> "none", result |-> "none", via |-> "none", tok |-> NullStr, http |-> "none"]

\* The locals of a call and the history the properties need:
\*   arg, autoDetect  the arguments
\*   io               outcome of the pending secure-cache operation
\*   stored           the value secrets.get returned
\*   reads            the local sources consulted, in order
\*   via              initialize: "cache" or "auto", the source of the credential
\*                    detectBillingModel: "cached", "response" or "failed"
\*   tok              the credential the call made the session credential
\*   sent, http       an HTTP request went out; how the exchange ended
\*   prev             the call that completed right before this one started
\*   seen             lastDetect when the call started
IdleCall ==
    [op |-> "idle", pc |-> "idle", arg |-> NullStr, autoDetect |-> FALSE, io |-> "none",
     stored |-> NullStr, reads |-> <<>>, via |-> "none", tok |-> NullStr,
     result |-> "none", sent |-> FALSE, http |-> "none",
     prev |-> NoPrev, seen |-> NoDetect]

InFlight(q) == call[q].pc \notin {"idle", "done"}

Summary(c) == [op |-> c.op, result |-> c.result, via |-> c.via, tok |-> c.tok, http |-> c.http]

NewCall(p, op) ==
    [IdleCall EXCEPT !.op = op,
                     !.prev = IF call[p].pc = "done" THEN Summary(call[p]) ELSE NoPrev,
                     !.seen = lastDetect]

\* Flow p enters a call with locals c, once the call before it has completed.
Enter(p, c) ==
    /\ \A q \in Procs : ~InFlight(q)
    /\ call' = [call EXCEPT ![p] = c]

Step(p, c) == call' = [call EXCEPT ![p] = c]

Return(c, value) == [c EXCEPT !.pc = "done", !.result = value]

\* isAuthenticated()
isAuthenticated == sessionToken # NullStr /\ userId # NullStr

\* The guard  !this.sessionToken || !this.userId  of the fetch methods, negated.
HasCredentials == TruthyStr(sessionToken) /\ TruthyStr(userId)

-----------------------------------------------------------------------------
(* initialize(autoDetect) *)

ConfigFiles == <<"cfg1", "cfg2", "cfg3">>

\* autoDetectToken from the config files on: they are read in order until one
\* yields a token.  A run is the sources read and the token found (NullStr: none).
ConfigRuns(before) ==
    {[reads |-> before \o SubSeq(ConfigFiles, 1, k), found |-> t] :
        k \in 1..Len(ConfigFiles), t \in ServiceTokens}
    \cup {[reads |-> before \o ConfigFiles, found |-> NullStr]}

\* readTokenFromSqlite once sql.js is loaded: sql.js, else the sqlite3 command,
\* else on to the config files.
DatabaseRuns(before) ==
    {[reads |-> before \o <<"sqljs">>, found |-> t] : t \in ServiceTokens}
    \cup {[reads |-> before \o <<"sqljs", "cli">>, found |-> t] : t \in ServiceTokens}
    \cup ConfigRuns(before \o <<"sqljs", "cli">>)

\* Faulty variant: the write never reaches the slot.
SecretsStoreSkipped(io, token) == secret

\* secrets.store(key, token): the slot after the write, which a failing
\* keychain rejects.
SecretsStore(io, token) == IF io = "ok" THEN token ELSE secret

\* Lines 610 and 647-650: secrets.get rejected and the catch returned false.
ReadFailed(c) == c.op = "initialize" /\ c.io = "fail" /\ c.via = "none"

\* Faulty variant: the stored token is never accepted.
StoredTokenIgnored(stored) == FALSE

\* Lines 612-618: the stored token is used when it is non-empty and an account
\* id comes out of it.
StoredTokenUsable(stored) == TruthyStr(stored) /\ TruthyStr(userIdOf[stored])

\* Faulty variant: the detected credential is stored whether or not an account
\* id comes out of it.
AfterAutoDetectStoresAny(p, c, tok0, uid0, run) ==
    LET c1  == [c EXCEPT !.reads = run.reads]
        uid == userIdOf[run.found]
    IN  IF TruthyStr(run.found)
        THEN /\ sessionToken' = run.found
             /\ userId' = uid
             /\ \E io \in {"ok", "fail"} :
                    /\ secret' = SecretsStore(io, run.found)
                    /\ Step(p, [c1 EXCEPT !.pc = "init_store", !.io = io, !.via = "auto",
                                          !.tok = run.found])
        ELSE /\ sessionToken' = tok0
             /\ userId' = uid0
             /\ secret' = secret
             /\ Step(p, Return(c1, "false"))

\* Lines 627-646: what initialize does with the outcome of autoDetectToken.
\* tok0, uid0 are sessionToken and userId as the earlier lines left them.
AfterAutoDetect(p, c, tok0, uid0, run) ==
    LET c1  == [c EXCEPT !.reads = run.reads]
        uid == userIdOf[run.found]
    IN  IF TruthyStr(run.found)
        THEN /\ sessionToken' = run.found
             /\ userId' = uid
             /\ IF TruthyStr(uid)
                THEN \E io \in {"ok", "fail"} :
                        /\ secret' = SecretsStore(io, run.found)
                        /\ Step(p, [c1 EXCEPT !.pc = "init_store", !.io = io, !.via = "auto",
                                              !.tok = run.found])
                ELSE /\ secret' = secret
                     /\ Step(p, Return(c1, "false"))
        ELSE /\ sessionToken' = tok0
             /\ userId' = uid0
             /\ secret' = secret
             /\ Step(p, Return(c1, "false"))

\* Lines 605-610: the call, up to  await secrets.get .
Initialize(p) ==
    \E autoDetect \in BOOLEAN, io \in {"ok", "fail"} :
        /\ Enter(p, [NewCall(p, "initialize") EXCEPT
                        !.pc = "init_get", !.autoDetect = autoDetect, !.io = io,
                        !.stored = IF io = "ok" THEN secret ELSE NullStr])
        /\ UNCHANGED <<sessionToken, userId, detectedBillingModel, secret, lastDetect>>

\* Lines 611-646, resumed with the stored token, up to  await initSqlJs()  when
\* the database file exists, and through the config files when it does not.
InitializeGot(p) ==
    LET c    == call[p]
        uidS == userIdOf[c.stored]
        tok0 == IF TruthyStr(c.stored) THEN c.stored ELSE sessionToken
        uid0 == IF TruthyStr(c.stored) THEN uidS ELSE userId
    IN  /\ c.pc = "init_get"
        /\ UNCHANGED <<detectedBillingModel, lastDetect>>
        /\ IF c.io = "fail"
           THEN /\ Step(p, Return(c, "false"))
                /\ UNCHANGED <<sessionToken, userId, secret>>
           ELSE IF StoredTokenUsable(c.stored)
           THEN /\ sessionToken' = c.stored
                /\ userId' = uidS
                /\ secret' = secret
                /\ Step(p, Return([c EXCEPT !.via = "cache", !.tok = c.stored], "true"))
           ELSE IF ~c.autoDetect
           THEN /\ sessionToken' = tok0
                /\ userId' = uid0
                /\ secret' = secret
                /\ Step(p, Return(c, "false"))
           ELSE \/ /\ sessionToken' = tok0
                   /\ userId' = uid0
                   /\ secret' = secret
                   /\ Step(p, [c EXCEPT !.pc = "init_sqljs", !.reads = <<"exists">>])
                \/ \E run \in ConfigRuns(<<"exists">>) :
                        AfterAutoDetect(p, c, tok0, uid0, run)

\* readTokenUsingSqlJs resumed after  await initSqlJs() , then the sqlite3
\* command and the config files as far as needed, then lines 627-646.
InitializeSqlJs(p) ==
    LET c == call[p]
    IN  /\ c.pc = "init_sqljs"
        /\ UNCHANGED <<detectedBillingModel, lastDetect>>
        /\ \E run \in DatabaseRuns(c.reads) :
                AfterAutoDetect(p, c, sessionToken, userId, run)

\* Lines 633-634 resumed after  await secrets.store ; a rejection lands in the catch.
InitializeStored(p) ==
    LET c == call[p]
    IN  /\ c.pc = "init_store"
        /\ Step(p, Return(c, IF c.io = "ok" THEN "true" ELSE "false"))
        /\ UNCHANGED <<sessionToken, userId, detectedBillingModel, secret, lastDetect>>

-----------------------------------------------------------------------------
(* setSessionToken(token) *)

\* Faulty variant: the fields are assigned before the account id is checked.
SetSessionTokenUnchecked(p) ==
    \E token \in ServiceTokens :
        LET uid == userIdOf[token]
            c   == [NewCall(p, "setSessionToken") EXCEPT !.arg = token]
        IN  /\ UNCHANGED <<detectedBillingModel, lastDetect>>
            /\ sessionToken' = token
            /\ userId' = uid
            /\ IF ~TruthyStr(uid)
               THEN /\ Enter(p, Return(c, "false"))
                    /\ secret' = secret
               ELSE \E io \in {"ok", "fail"} :
                        /\ secret' = SecretsStore(io, token)
                        /\ Enter(p, [c EXCEPT !.pc = "set_store", !.io = io, !.tok = token])

\* Lines 909-917, up to  await secrets.store .
SetSessionToken(p) ==
    \E token \in ServiceTokens :
        LET uid == userIdOf[token]
            c   == [NewCall(p, "setSessionToken") EXCEPT !.arg = token]
        IN  /\ UNCHANGED <<detectedBillingModel, lastDetect>>
            /\ IF ~TruthyStr(uid)
               THEN /\ Enter(p, Return(c, "false"))
                    /\ UNCHANGED <<sessionToken, userId, secret>>
               ELSE \E io \in {"ok", "fail"} :
                        /\ sessionToken' = token
                        /\ userId' = uid
                        /\ secret' = SecretsStore(io, token)
                        /\ Enter(p, [c EXCEPT !.pc = "set_store", !.io = io, !.tok = token])

\* Line 918 resumed after  await secrets.store ; a rejection leaves the call by
\* an exception, there is no catch.
SetSessionTokenStored(p) ==
    LET c == call[p]
    IN  /\ c.pc = "set_store"
        /\ Step(p, Return(c, IF c.io = "ok" THEN "true" ELSE "threw"))
        /\ UNCHANGED <<sessionToken, userId, detectedBillingModel, secret, lastDetect>>

-----------------------------------------------------------------------------
(* clearCredentials() *)

\* Faulty variant: the cached billing model survives the logout.
ClearCredentialsKeepsModel(p) ==
    \E io \in {"ok", "fail"} :
        /\ sessionToken' = NullStr
        /\ userId' = NullStr
        /\ detectedBillingModel' = detectedBillingModel
        /\ secret' = IF io = "ok" THEN NullStr ELSE secret
        /\ lastDetect' = NoDetect
        /\ Enter(p, [NewCall(p, "clearCredentials") EXCEPT !.pc = "clear_delete", !.io = io])

\* Lines 1146-1151, up to  await secrets.delete .
ClearCredentials(p) ==
    \E io \in {"ok", "fail"} :
        /\ sessionToken' = NullStr
        /\ userId' = NullStr
        /\ detectedBillingModel' = NoModel
        /\ secret' = IF io = "ok" THEN NullStr ELSE secret
        /\ lastDetect' = NoDetect
        /\ Enter(p, [NewCall(p, "clearCredentials") EXCEPT !.pc = "clear_delete", !.io = io])

\* Line 1152 resumed after  await secrets.delete ; a rejection leaves the call
\* by an exception.
ClearCredentialsDeleted(p) ==
    LET c == call[p]
    IN  /\ c.pc = "clear_delete"
        /\ Step(p, Return(c, IF c.io = "ok" THEN "void" ELSE "threw"))
        /\ UNCHANGED <<sessionToken, userId, detectedBillingModel, secret, lastDetect>>

-----------------------------------------------------------------------------
(* detectBillingModel() and fetchBillingInfo() *)

\* Faulty variant: the cache is not consulted, every call asks the upstream.
DetectBillingModelUncached(p) ==
    LET c == NewCall(p, "detectBillingModel")
    IN  /\ UNCHANGED <<sessionToken, userId, detectedBillingModel, secret>>
        /\ IF ~HasCredentials
           THEN /\ Enter(p, Return([c EXCEPT !.via = "failed", !.http = "refused"], "free"))
                /\ lastDetect' = [result |-> "free", obtained |-> FALSE, sent |-> FALSE]
           ELSE /\ Enter(p, [c EXCEPT !.pc = "detect_wait", !.sent = TRUE])
                /\ lastDetect' = lastDetect

\* Lines 1169-1176 and 1158-1163: the cached model, or the profile request,
\* which fetchBillingInfo refuses without credentials.
DetectBillingModel(p) ==
    LET c == NewCall(p, "detectBillingModel")
    IN  /\ UNCHANGED <<sessionToken, userId, detectedBillingModel, secret>>
        /\ IF detectedBillingModel # NoModel
           THEN /\ Enter(p, Return([c EXCEPT !.via = "cached"], detectedBillingModel))
                /\ lastDetect' = [result |-> detectedBillingModel, obtained |-> TRUE,
                                  sent |-> FALSE]
           ELSE IF ~HasCredentials
           THEN /\ Enter(p, Return([c EXCEPT !.via = "failed", !.http = "refused"], "free"))
                /\ lastDetect' = [result |-> "free", obtained |-> FALSE, sent |-> FALSE]
           ELSE /\ Enter(p, [c EXCEPT !.pc = "detect_wait", !.sent = TRUE])
                /\ lastDetect' = lastDetect

\* Lines 1178-1211 resumed with a profile: classified, cached, returned.
DetectBillingModelResponse(p) ==
    LET c == call[p]
    IN  /\ c.pc = "detect_wait"
        /\ UNCHANGED <<sessionToken, userId, secret>>
        /\ \E info \in SampleProfiles :
                LET model == ClassifyBilling(info)
                IN  /\ detectedBillingModel' = model
                    /\ Step(p, Return([c EXCEPT !.via = "response", !.http = "ok"], model))
                    /\ lastDetect' = [result |-> model, obtained |-> TRUE, sent |-> TRUE]

\* Faulty variant: the fallback 'free' is cached like a detected model.
DetectBillingModelErrorCached(p) ==
    LET c == call[p]
    IN  /\ c.pc = "detect_wait"
        /\ UNCHANGED <<sessionToken, userId, secret>>
        /\ detectedBillingModel' = "free"
        /\ \E http \in HttpOutcomes \ {"ok"} :
                Step(p, Return([c EXCEPT !.via = "failed", !.http = http], "free"))
        /\ lastDetect' = [result |-> "free", obtained |-> FALSE, sent |-> TRUE]

\* Lines 1178 and 1212-1217: no profile came back; the fallback is 'free',
\* and nothing is cached.
DetectBillingModelError(p) ==
    LET c == call[p]
    IN  /\ c.pc = "detect_wait"
        /\ UNCHANGED <<sessionToken, userId, secret, detectedBillingModel>>
        /\ \E http \in HttpOutcomes \ {"ok"} :
                Step(p, Return([c EXCEPT !.via = "failed", !.http = http], "free"))
        /\ lastDetect' = [result |-> "free", obtained |-> FALSE, sent |-> TRUE]

-----------------------------------------------------------------------------
(* The service as a state machine *)

\* After construction the fields are null; the secure cache slot is persistent
\* and holds whatever an earlier session or the user's keychain left in it.
Init ==
    /\ ExtensionNotStarted
    /\ sessionToken = NullStr
    /\ userId = NullStr
    /\ detectedBillingModel = NoModel
    /\ userIdOf = UserIds
    /\ secret \in ServiceTokens \cup {NullStr}
    /\ call = [p \in Procs |-> IdleCall]
    /\ lastDetect = NoDetect
    /\ fnArg = NullStr
    /\ fnRes = NullStr
    /\ fnPc = "unused"

Next ==
    \E p \in Procs :
        \/ Initialize(p) /\ UNCHANGED <<fnVars, extensionVars>>
        \/ InitializeGot(p) /\ UNCHANGED <<fnVars, extensionVars>>
        \/ InitializeSqlJs(p) /\ UNCHANGED <<fnVars, extensionVars>>
        \/ InitializeStored(p) /\ UNCHANGED <<fnVars, extensionVars>>
        \/ SetSessionToken(p) /\ UNCHANGED <<fnVars, extensionVars>>
        \/ SetSessionTokenStored(p) /\ UNCHANGED <<fnVars, extensionVars>>
        \/ ClearCredentials(p) /\ UNCHANGED <<fnVars, extensionVars>>
        \/ ClearCredentialsDeleted(p) /\ UNCHANGED <<fnVars, extensionVars>>
        \/ DetectBillingModel(p) /\ UNCHANGED <<fnVars, extensionVars>>
        \/ DetectBillingModelResponse(p) /\ UNCHANGED <<fnVars, extensionVars>>
        \/ DetectBillingModelError(p) /\ UNCHANGED <<fnVars, extensionVars>>

Spec == Init /\ [][Next]_vars

-----------------------------------------------------------------------------
(* The pure functions, applied to enumerated inputs *)

\* The service as constructed, with an empty secure cache, and one input drawn.
InitFunction(inputs) ==
    /\ ExtensionNotStarted
    /\ sessionToken = NullStr
    /\ userId = NullStr
    /\ detectedBillingModel = NoModel
    /\ userIdOf = UserIds
    /\ secret = NullStr
    /\ call = [p \in Procs |-> IdleCall]
    /\ lastDetect = NoDetect
    /\ fnArg \in inputs
    /\ fnRes = NullStr
    /\ fnPc = "ready"

\* extractUserId(token) on the token of the drawn case.
ExtractUserId ==
    /\ fnPc = "ready"
    /\ fnRes' = extractUserId(fnArg.token)
    /\ fnPc' = "done"
    /\ UNCHANGED <<fnArg, userIdOf, serviceVars, extensionVars>>

SpecExtract == InitFunction(ExtractCases) /\ [][ExtractUserId]_vars

\* Lines 1183-1206 on the drawn profile.
Classify ==
    /\ fnPc = "ready"
    /\ fnRes' = ClassifyBilling(fnArg)
    /\ fnPc' = "done"
    /\ UNCHANGED <<fnArg, userIdOf, serviceVars, extensionVars>>

SpecClassify == InitFunction(Profiles) /\ [][Classify]_vars

-----------------------------------------------------------------------------
(* Properties of the credential locator (initialize) *)

\* C1, as stated: whenever initialize reads a token from the secure cache slot,
\* that token becomes the session credential and no local source (database
\* file, sql.js, sqlite3 command, config file) is read - for every stored
\* token and either value of autoDetect.
C1_AnyStoredTokenIsAuthoritative ==
    \A p \in Procs :
        LET c == call[p]
        IN  (c.op = "initialize" /\ c.pc = "done" /\ TruthyStr(c.stored)) =>
                /\ sessionToken = c.stored
                /\ c.reads = <<>>

\* C1, amended: whenever initialize reads from the slot a token from which a
\* non-empty account id can be derived, it returns true with that token as the
\* session credential and its id as the account id, and reads no local source,
\* for either value of autoDetect.
C1_UsableStoredTokenIsAuthoritative ==
    \A p \in Procs :
        LET c == call[p]
        IN  (/\ c.op = "initialize"
             /\ c.pc = "done"
             /\ TruthyStr(c.stored)
             /\ TruthyStr(UserIds[c.stored])) =>
                /\ c.result = "true"
                /\ c.via = "cache"
                /\ sessionToken = c.stored
                /\ userId = UserIds[c.stored]
                /\ c.reads = <<>>

\* An initialize with autoDetect on that found the signed token in the slot
\* and returned it.
C1_Witness ==
    \E p \in Procs :
        /\ call[p].op = "initialize"
        /\ call[p].pc = "done"
        /\ call[p].autoDetect
        /\ call[p].stored = TokSigned
        /\ call[p].result = "true"
        /\ sessionToken = TokSigned

\* C2: when initialize returns true with an auto-detected credential, the
\* secure cache slot holds that credential; and the initialize that follows
\* immediately, with either value of autoDetect, returns true from the cache
\* alone (no local source read) with the same credential and account id.
C2_AutoDetectedTokenIsCached ==
    \A p \in Procs :
        LET c == call[p]
        IN  /\ (c.op = "initialize" /\ c.pc = "done" /\ c.result = "true" /\ c.via = "auto") =>
                /\ secret = c.tok
                /\ sessionToken = c.tok
                /\ userId = UserIds[c.tok]
                /\ TruthyStr(userId)
            /\ (/\ c.op = "initialize"
                /\ c.pc = "done"
                /\ ~ReadFailed(c)
                /\ c.prev.op = "initialize"
                /\ c.prev.result = "true"
                /\ c.prev.via = "auto") =>
                /\ c.result = "true"
                /\ c.via = "cache"
                /\ c.reads = <<>>
                /\ c.tok = c.prev.tok
                /\ sessionToken = c.prev.tok
                /\ userId = UserIds[c.prev.tok]

\* An initialize with autoDetect off that succeeded right after an initialize
\* that had auto-detected the percent-encoded cookie.
C2_Witness ==
    \E p \in Procs :
        /\ call[p].op = "initialize"
        /\ call[p].pc = "done"
        /\ ~call[p].autoDetect
        /\ call[p].prev.op = "initialize"
        /\ call[p].prev.via = "auto"
        /\ call[p].prev.result = "true"
        /\ call[p].prev.tok = TokEncoded
        /\ call[p].result = "true"
        /\ userId = <<"u", "2">>

-----------------------------------------------------------------------------
(* Properties of the identity extractor (extractUserId) *)

\* C3: for every credential whose percent-decoded form (the raw string when
\* decoding fails) contains "::", extractUserId returns exactly the text before
\* the first "::"; a cookie built as <id>::<rest> or <id>%3A%3A<rest> yields <id>.
C3_CookieIdIsTextBeforeSeparator ==
    fnPc = "done" =>
        LET dec    == decodeURIComponent(fnArg.token)
            d      == IF dec.ok THEN dec.str ELSE fnArg.token
            seps   == {i \in 1..(Len(d) - 1) : d[i] = ":" /\ d[i + 1] = ":"}
            first  == CHOOSE i \in seps : \A j \in seps : i <= j
        IN  /\ seps # {} => fnRes = SubSeq(d, 1, first - 1)
            /\ fnArg.user = CookieId => fnRes = CookieId

\* The percent-encoded cookie, decoded and cut at its separator.
C3_Witness ==
    /\ fnPc = "done"
    /\ \E n \in 1..Len(fnArg.token) :
            SubSeq(fnArg.token, 1, n) = CookieId \o <<"%", "3", "A", "%", "3", "A">>
    /\ fnRes = CookieId

\* C4: for a credential whose decoded form has no "::", extractUserId returns
\* the first match of user_[A-Za-z0-9]+ in the sub field of the JSON payload
\* that the middle of exactly three dot-separated segments decodes to, and
\* null when sub is missing or has no match, when the segment count is not
\* three, or when decoding or parsing fails; it always returns a value.
C4_SignedTokenIdComesFromSub ==
    fnPc = "done" =>
        LET dec    == decodeURIComponent(fnArg.token)
            d      == IF dec.ok THEN dec.str ELSE fnArg.token
            seps   == {i \in 1..(Len(d) - 1) : d[i] = ":" /\ d[i + 1] = ":"}
            dots   == {i \in 1..Len(d) : d[i] = "."}
        IN  seps = {} =>
                /\ fnRes = fnArg.user
                /\ Cardinality(dots) # 2 => fnRes = NullStr
                /\ fnRes # NullStr => /\ Len(fnRes) > Len(UserPrefix)
                                      /\ SubSeq(fnRes, 1, Len(UserPrefix)) = UserPrefix
                                      /\ \A i \in 1..Len(fnRes) : i > Len(UserPrefix) => IsAlnum(fnRes[i])

\* The sub 'auth0|user_AB12' of a three-segment token gives 'user_AB12'.
C4_Witness ==
    /\ fnPc = "done"
    /\ fnArg.token = <<"h">> \o Dot
                     \o Base64UrlEncode(JsonObject(SubKey,
                            StrLit(Auth0 \o UserPrefix \o <<"A", "B", "1", "2">>)))
                     \o Dot \o <<"s">>
    /\ fnRes = <<"u", "s", "e", "r", "_", "A", "B", "1", "2">>

-----------------------------------------------------------------------------
(* Properties of setSessionToken *)

\* C5: a setSessionToken call that returns true was given a token with a
\* derivable account id, and the session credential, the account id and the
\* secure cache slot then hold that token and its id; one that returns false
\* was given a token without one, and leaves all three as they were when it
\* was called.
C5_SetSessionTokenAllOrNothing ==
    [][\A p \in Procs :
        LET c == call'[p]
        IN  (c.op = "setSessionToken" /\ c.pc = "done" /\ call[p] # c) =>
                /\ c.result = "true" =>
                        /\ TruthyStr(UserIds[c.arg])
                        /\ sessionToken' = c.arg
                        /\ userId' = UserIds[c.arg]
                        /\ secret' = c.arg
                /\ c.result = "false" =>
                        /\ ~TruthyStr(UserIds[c.arg])
                        /\ UNCHANGED <<sessionToken, userId, secret>>
                /\ TruthyStr(UserIds[c.arg]) => c.result # "false"]_vars

\* A rejected token left an earlier session and its cached credential in place.
C5_Witness ==
    \E p \in Procs :
        /\ call[p].op = "setSessionToken"
        /\ call[p].pc = "done"
        /\ call[p].result = "false"
        /\ call[p].arg = TokEmptyId
        /\ sessionToken = TokCookie
        /\ secret = TokCookie

-----------------------------------------------------------------------------
(* Properties of the billing classifier (detectBillingModel) *)

\* C6, as stated: every profile with isTeamMember true is classified business
\* when teamMembershipType is business or enterprise, otherwise usage-based
\* when teamMembershipType is usage_based or isOnBillableAuto is true,
\* otherwise pro - for every teamMembershipType, null and empty included, and
\* whatever the individual membership fields are.
C6_TeamTableForEveryTeamType ==
    (fnPc = "done" /\ fnArg.isTeamMember) =>
        fnRes = IF fnArg.teamMembershipType \in {"business", "enterprise"} THEN "business"
                ELSE IF fnArg.teamMembershipType = "usage_based" \/ fnArg.isOnBillableAuto
                     THEN "usage-based"
                ELSE "pro"

\* C6, amended: a profile with isTeamMember true and a non-empty
\* teamMembershipType is classified by that table, whatever the individual
\* membership fields are; with a null or empty teamMembershipType it is
\* classified like a non-team account, by membershipType (when non-empty,
\* otherwise individualMembershipType) and never as usage-based.
C6_TeamTableForNonEmptyTeamType ==
    (fnPc = "done" /\ fnArg.isTeamMember) =>
        LET memberType == IF fnArg.membershipType \notin {Absent, ""}
                          THEN fnArg.membershipType
                          ELSE fnArg.individualMembershipType
        IN  fnRes = IF fnArg.teamMembershipType \in {"business", "enterprise"} THEN "business"
                    ELSE IF fnArg.teamMembershipType = "usage_based" THEN "usage-based"
                    ELSE IF fnArg.teamMembershipType \notin {Absent, ""}
                         THEN (IF fnArg.isOnBillableAuto THEN "usage-based" ELSE "pro")
                    ELSE IF memberType \in {"pro", "hobby"} THEN "pro"
                    ELSE IF memberType \in {"business", "enterprise"} THEN "business"
                    ELSE "free"

\* An enterprise team member whose individual plan is free is business.
C6_Witness ==
    /\ fnPc = "done"
    /\ fnArg.isTeamMember
    /\ fnArg.teamMembershipType = "enterprise"
    /\ fnArg.membershipType = "free"
    /\ fnArg.isOnBillableAuto
    /\ fnRes = "business"

\* C7: every profile with isTeamMember false is classified by its membership
\* type (membershipType when non-empty, otherwise individualMembershipType):
\* free and free_trial give free, pro and hobby give pro, business and
\* enterprise give business, anything else or nothing gives free; it is never
\* usage-based, whatever isOnBillableAuto and teamMembershipType are.
C7_IndividualTable ==
    (fnPc = "done" /\ ~fnArg.isTeamMember) =>
        LET memberType == IF fnArg.membershipType \notin {Absent, ""}
                          THEN fnArg.membershipType
                          ELSE fnArg.individualMembershipType
        IN  /\ memberType \in {"free", "free_trial"} => fnRes = "free"
            /\ memberType \in {"pro", "hobby"} => fnRes = "pro"
            /\ memberType \in {"business", "enterprise"} => fnRes = "business"
            /\ memberType \in {Absent, "", "ultra"} => fnRes = "free"
            /\ fnRes \in {"free", "pro", "business"}

\* A non-team account on billable auto with only an individual hobby plan is pro.
C7_Witness ==
    /\ fnPc = "done"
    /\ ~fnArg.isTeamMember
    /\ fnArg.isOnBillableAuto
    /\ fnArg.teamMembershipType = "usage_based"
    /\ fnArg.membershipType = ""
    /\ fnArg.individualMembershipType = "hobby"
    /\ fnRes = "pro"

\* C8: a detectBillingModel call whose profile request fails - refused for
\* lack of credentials, transport error, timeout, 401/403, another status, a
\* body that is not JSON or holds no profile - returns free and leaves the
\* billing-model cache empty; the call that follows is not answered from the
\* cache: it asks for the profile again, and sends a request whenever the
\* failed one had been sent.
C8_FailedDetectionIsNotCached ==
    \A p \in Procs :
        LET c == call[p]
        IN  /\ (/\ c.op = "detectBillingModel"
                /\ c.pc = "done"
                /\ c.http \in {"refused", "network", "timeout", "auth", "status", "parse", "empty"}) =>
                /\ c.result = "free"
                /\ c.via = "failed"
                /\ detectedBillingModel = NoModel
            /\ (/\ c.op = "detectBillingModel"
                /\ c.prev.op = "detectBillingModel"
                /\ c.prev.via = "failed") =>
                /\ c.via # "cached"
                /\ c.http # "none" \/ c.pc = "detect_wait"
                /\ c.prev.http # "refused" => c.sent

\* After a timeout the next call asked again and got a business profile.
C8_Witness ==
    \E p \in Procs :
        /\ call[p].op = "detectBillingModel"
        /\ call[p].pc = "done"
        /\ call[p].prev.op = "detectBillingModel"
        /\ call[p].prev.http = "timeout"
        /\ call[p].prev.result = "free"
        /\ call[p].sent
        /\ call[p].result = "business"
        /\ detectedBillingModel = "business"

\* C9, as stated: of any two detectBillingModel calls with no clearCredentials
\* between them, both return the same model and only one profile request is
\* issued in total.  Stated for a call and the one completed last before it.
C9_SameModelOneRequest ==
    \A p \in Procs :
        LET c == call[p]
        IN  (c.op = "detectBillingModel" /\ c.pc = "done" /\ c.seen # NoDetect) =>
                /\ c.result = c.seen.result
                /\ ~(c.sent /\ c.seen.sent)

\* C9, amended: of two detectBillingModel calls with no clearCredentials
\* between them, if the earlier one obtained a model (from a profile or from
\* the cache), the later one returns the same model from the cache without a
\* profile request; and the cache holds that model until the logout.
C9_CachedModelIsReturned ==
    /\ lastDetect.obtained => detectedBillingModel = lastDetect.result
    /\ \A p \in Procs :
        LET c == call[p]
        IN  (c.op = "detectBillingModel" /\ c.seen.obtained) =>
                /\ c.pc = "done"
                /\ c.via = "cached"
                /\ c.result = c.seen.result
                /\ ~c.sent

\* A call answered from the cache that an earlier call had filled by a request.
C9_Witness ==
    \E p \in Procs :
        /\ call[p].op = "detectBillingModel"
        /\ call[p].pc = "done"
        /\ call[p].seen.obtained
        /\ call[p].seen.sent
        /\ call[p].seen.result = "usage-based"
        /\ call[p].result = "usage-based"
        /\ ~call[p].sent

-----------------------------------------------------------------------------
(* Properties of clearCredentials *)

\* C10: once clearCredentials has completed, sessionToken, userId and the
\* cached billing model are null, isAuthenticated() is false and the secure
\* cache slot is empty.
C10_LogoutClearsEverything ==
    \A p \in Procs :
        LET c == call[p]
        IN  (c.op = "clearCredentials" /\ c.pc = "done" /\ c.result = "void") =>
                /\ sessionToken = NullStr
                /\ userId = NullStr
                /\ detectedBillingModel = NoModel
                /\ ~isAuthenticated
                /\ secret = NullStr

\* A logout completed right after a call that had detected and cached a model.
C10_Witness ==
    \E p \in Procs :
        /\ call[p].op = "clearCredentials"
        /\ call[p].pc = "done"
        /\ call[p].result = "void"
        /\ call[p].prev.op = "detectBillingModel"
        /\ call[p].prev.via = "response"
        /\ call[p].prev.result = "pro"

-----------------------------------------------------------------------------
(* Numbers: decimal fractions, parseFloat, parseInt, toFixed(2) *)

\* A JavaScript number is modelled as an exact decimal n / 10^s, kept in lowest
\* scale (n is not a multiple of 10 unless s = 0); the binary rounding of
\* doubles is not modelled.  NaN is a value of its own.
RECURSIVE Pow10(_)
Pow10(k) == IF k = 0 THEN 1 ELSE 10 * Pow10(k - 1)

RECURSIVE Decimal(_, _)
Decimal(n, s) == IF s > 0 /\ n % 10 = 0 THEN Decimal(n \div 10, s - 1) ELSE [n |-> n, s |-> s]

NaN == [n |-> 0, s |-> -1]

Whole(n) == Decimal(n, 0)

\* a + b
DecAdd(a, b) ==
    LET s == IF a.s >= b.s THEN a.s ELSE b.s
    IN  Decimal(a.n * Pow10(s - a.s) + b.n * Pow10(s - b.s), s)

\* The value of a run of decimal digits (0 for the empty run).
RECURSIVE DigitsValue(_)
DigitsValue(ds) ==
    IF ds = <<>> THEN 0
    ELSE 10 * DigitsValue(SubSeq(ds, 1, Len(ds) - 1)) + (CodeOf(ds[Len(ds)]) - 48)

\* The decimal digits of a natural number.
RECURSIVE NatToString(_)
NatToString(n) ==
    IF n < 10 THEN <<CharOf(48 + n)>> ELSE NatToString(n \div 10) \o <<CharOf(48 + (n % 10))>>

\* Infinity and -Infinity, which parseFloat reads from the word "Infinity".
Infinity(sign) == [n |-> sign, s |-> -1]

\* One past the run of blanks starting at i.
RECURSIVE SkipBlanks(_, _)
SkipBlanks(str, i) == IF i <= Len(str) /\ str[i] = " " THEN SkipBlanks(str, i + 1) ELSE i

\* parseFloat(str): leading blanks are skipped, then the longest prefix of the
\* form [+-] digits [. digits] or [+-] . digits, with [eE] [+-] digits behind
\* it when there is one, is the value; the word Infinity is read as such; the
\* rest of the text is ignored, and without such a prefix the result is NaN.
parseFloat(str) ==
    LET start      == SkipBlanks(str, 1)
        signed     == start <= Len(str) /\ str[start] \in {"+", "-"}
        sign       == IF signed /\ str[start] = "-" THEN -1 ELSE 1
        i0         == IF signed THEN start + 1 ELSE start
        i1         == DigitsEnd(str, i0)
        hasDot     == i1 <= Len(str) /\ str[i1] = "."
        i2         == IF hasDot THEN DigitsEnd(str, i1 + 1) ELSE i1
        intDigits  == SubSeq(str, i0, i1 - 1)
        fracDigits == IF hasDot THEN SubSeq(str, i1 + 1, i2 - 1) ELSE <<>>
        magnitude  == DigitsValue(intDigits \o fracDigits)
        hasE       == i2 <= Len(str) /\ str[i2] \in {"e", "E"}
        eSigned    == hasE /\ i2 + 1 <= Len(str) /\ str[i2 + 1] \in {"+", "-"}
        e0         == IF eSigned THEN i2 + 2 ELSE i2 + 1
        expDigits  == IF hasE THEN SubSeq(str, e0, DigitsEnd(str, e0) - 1) ELSE <<>>
        exponent   == IF eSigned /\ str[i2 + 1] = "-" THEN -DigitsValue(expDigits)
                      ELSE DigitsValue(expDigits)
        scale      == Len(fracDigits) - exponent
    IN  IF StartsAt(str, i0, <<"I", "n", "f", "i", "n", "i", "t", "y">>) THEN Infinity(sign)
        ELSE IF intDigits = <<>> /\ fracDigits = <<>> THEN NaN
        ELSE IF scale >= 0 THEN Decimal(sign * magnitude, scale)
        ELSE Whole(sign * magnitude * Pow10(-scale))

\* parseInt(str): leading blanks are skipped, then the longest prefix
\* [+-] digits is the value; NaN without a digit.
parseInt(str) ==
    LET start  == SkipBlanks(str, 1)
        signed == start <= Len(str) /\ str[start] \in {"+", "-"}
        i0     == IF signed THEN start + 1 ELSE start
        end    == DigitsEnd(str, i0)
        value  == DigitsValue(SubSeq(str, i0, end - 1))
    IN  IF end = i0 THEN NaN
        ELSE Whole(IF signed /\ str[start] = "-" THEN -value ELSE value)

\* Number.prototype.toFixed(2): the nearest multiple of 0.01, the larger of two
\* equally near ones, written with a sign, the integer digits and two decimals.
toFixed2(x) ==
    LET magnitude == IF x.n < 0 THEN -x.n ELSE x.n
        cents     == IF x.s <= 2 THEN magnitude * Pow10(2 - x.s)
                     ELSE (magnitude + 5 * Pow10(x.s - 3)) \div Pow10(x.s - 2)
        fraction  == cents % 100
    IN  (IF x.n < 0 THEN <<"-">> ELSE <<>>)
        \o NatToString(cents \div 100) \o <<".">>
        \o <<CharOf(48 + (fraction \div 10)), CharOf(48 + (fraction % 10))>>

-----------------------------------------------------------------------------
(* CursorApiService.parseCost *)

\* The usageBasedCosts field of an event: a string, a number, or anything else
\* JSON can hold there (t is "undefined", "null", "boolean" or "object").
CostString(str) == [t |-> "string", s |-> str, v |-> Whole(0)]

CostNumber(x) == [t |-> "number", s |-> <<>>, v |-> x]

CostOther(type) == [t |-> type, s |-> <<>>, v |-> Whole(0)]

\* !usageBasedCosts
FalsyCost(cost) ==
    \/ cost.t \in {"undefined", "null"}
    \/ cost.t = "string" /\ cost.s = <<>>
    \/ cost.t = "number" /\ cost.v \in {Whole(0), NaN}
    \/ cost.t = "boolean" /\ cost.s = <<>>

\* Faulty variant: the pattern lacks the g flag, only the first sign is removed.
StripCurrencyFirstOnly(str) ==
    LET signs == {i \in 1..Len(str) : str[i] \in {"$", ","}}
        first == CHOOSE i \in signs : \A k \in signs : i <= k
    IN  IF signs = {} THEN str
        ELSE SubSeq(str, 1, first - 1) \o SubSeq(str, first + 1, Len(str))

\* String.prototype.replace(/[$,]/g, '')
StripCurrency(str) == SelectSeq(str, LAMBDA c : c \notin {"$", ","})

ZeroCost == [numericValue |-> Whole(0), displayValue |-> <<"$", "0", ".", "0", "0">>]

parseCost(usageBasedCosts) ==
    IF FalsyCost(usageBasedCosts) THEN ZeroCost
    ELSE IF usageBasedCosts.t = "string"
         THEN LET cleanCost  == StripCurrency(usageBasedCosts.s)
                  parsedCost == parseFloat(cleanCost)
              IN  [numericValue |-> IF parsedCost = NaN THEN Whole(0) ELSE parsedCost,
                   displayValue |-> usageBasedCosts.s]
    ELSE IF usageBasedCosts.t = "number"
         THEN [numericValue |-> usageBasedCosts.v,
               displayValue |-> <<"$">> \o toFixed2(usageBasedCosts.v)]
    ELSE ZeroCost

-----------------------------------------------------------------------------
(* Dates, to the day *)

\* A Date is its local year, month (0..11) and day; the time of day is left out.
\* InvalidDate is what new Date(undefined) or new Date('junk') gives.
InvalidDate == [y |-> 0, m |-> 0, d |-> 0]

DateOf(y, m, d) == [y |-> y, m |-> m, d |-> d]

IsLeapYear(y) == y % 4 = 0 /\ (y % 100 # 0 \/ y % 400 = 0)

DaysInMonth(y, m) ==
    IF m = 1 THEN (IF IsLeapYear(y) THEN 29 ELSE 28)
    ELSE IF m \in {3, 5, 8, 10} THEN 30
    ELSE 31

\* new Date(y, m, d) for m in 0..12 and d in 0..31: month 12 is January of the
\* next year, day 0 the last day of the month before, a day past the end of the
\* month runs over into the next month.
RECURSIVE NewDate(_, _, _)
NewDate(y, m, d) ==
    IF m > 11 THEN NewDate(y + 1, m - 12, d)
    ELSE IF d = 0 THEN (IF m = 0 THEN DateOf(y - 1, 11, 31)
                        ELSE DateOf(y, m - 1, DaysInMonth(y, m - 1)))
    ELSE IF d > DaysInMonth(y, m) THEN NewDate(y, m + 1, d - DaysInMonth(y, m))
    ELSE DateOf(y, m, d)

\* date.setMonth(date.getMonth() + 1); an invalid date stays invalid.
AddOneMonth(date) ==
    IF date = InvalidDate THEN InvalidDate ELSE NewDate(date.y, date.m + 1, date.d)

-----------------------------------------------------------------------------
(* CursorApiService.transformUsageData *)

\* BILLING_LIMITS
BILLING_LIMITS ==
    [model \in Models |->
        CASE model = "free"        -> [premium |-> 50, standard |-> 200]
          [] model = "pro"         -> [premium |-> 500, standard |-> 999999]
          [] model = "business"    -> [premium |-> 500, standard |-> 999999]
          [] model = "usage-based" -> [premium |-> 999999, standard |-> 999999]]

\* An optional number of a JSON payload: <<>> when null or missing, <<n>> otherwise.
\* x || fallback
OrElse(x, fallback) == IF x = <<>> \/ x[1] = 0 THEN fallback ELSE x[1]

\* A model entry of CursorUsageResponse, the fields the code reads.  The
\* startOfMonth of a payload is given as the local day new Date(text) denotes,
\* InvalidDate when the text is missing or not a date.
ModelUsage(numRequests, maxRequestUsage) ==
    [numRequests |-> numRequests, maxRequestUsage |-> maxRequestUsage]

\* entry?.field for an entry that may be missing (<<>>) or present (<<e>>).
NumRequestsOf(entry) == IF entry = <<>> THEN <<>> ELSE entry[1].numRequests

MaxRequestUsageOf(entry) == IF entry = <<>> THEN <<>> ELSE entry[1].maxRequestUsage

\* Faulty variant: the quota counts as exhausted only once it is exceeded.
transformUsageDataStrictlyOver(response, billingModel) ==
    LET limits       == BILLING_LIMITS[billingModel]
        startOfMonth == response.startOfMonth
        premiumUsed  == OrElse(NumRequestsOf(response.gpt4), 0)
        premiumLimit == OrElse(MaxRequestUsageOf(response.gpt4), limits.premium)
    IN  [requestsUsed         |-> premiumUsed + OrElse(NumRequestsOf(response.gpt35), 0)
                                    + OrElse(NumRequestsOf(response.gpt432k), 0),
         requestsLimit        |-> limits.standard,
         premiumRequestsUsed  |-> premiumUsed,
         premiumRequestsLimit |-> premiumLimit,
         periodStart          |-> startOfMonth,
         periodEnd            |-> AddOneMonth(startOfMonth),
         billingModel         |-> billingModel,
         isPremiumExhausted   |-> premiumUsed > premiumLimit]

transformUsageData(response, billingModel) ==
    LET limits       == BILLING_LIMITS[billingModel]
        startOfMonth == response.startOfMonth
        endOfMonth   == AddOneMonth(startOfMonth)
        gpt4Data     == response.gpt4
        premiumUsed  == OrElse(NumRequestsOf(gpt4Data), 0)
        premiumLimit == OrElse(MaxRequestUsageOf(gpt4Data), limits.premium)
        standardUsed == OrElse(NumRequestsOf(response.gpt35), 0)
        totalUsed    == premiumUsed + standardUsed + OrElse(NumRequestsOf(response.gpt432k), 0)
    IN  [requestsUsed         |-> totalUsed,
         requestsLimit        |-> limits.standard,
         premiumRequestsUsed  |-> premiumUsed,
         premiumRequestsLimit |-> premiumLimit,
         periodStart          |-> startOfMonth,
         periodEnd            |-> endOfMonth,
         billingModel         |-> billingModel,
         isPremiumExhausted   |-> premiumUsed >= premiumLimit]

\* Quota payloads: the gpt-4 entry missing, or with a request count and a
\* per-account maximum that are missing, zero, below, at and above the limits;
\* the other entries missing or present; startOfMonth a date or unusable.
UsedCounts == {<<>>, <<0>>, <<1>>, <<29>>, <<48>>, <<49>>, <<50>>, <<495>>, <<500>>, <<501>>}

MaxUsages == {<<>>, <<0>>, <<50>>, <<200>>, <<500>>}

UpstreamDates ==
    {InvalidDate, DateOf(2025, 5, 1), DateOf(2025, 0, 31), DateOf(2024, 0, 30), DateOf(2024, 11, 15)}

Gpt4Entries == {<<>>} \cup {<<ModelUsage(n, x)>> : n \in UsedCounts, x \in MaxUsages}

OtherEntries == {<<>>, <<ModelUsage(<<10>>, <<>>)>>}

QuotaResponses ==
    [gpt4 : Gpt4Entries, gpt35 : OtherEntries, gpt432k : OtherEntries,
     startOfMonth : UpstreamDates]

TransformInputs == [response : QuotaResponses, billingModel : Models]

\* transformUsageData on the drawn payload and billing model.
TransformUsageData ==
    /\ fnPc = "ready"
    /\ fnRes' = transformUsageData(fnArg.response, fnArg.billingModel)
    /\ fnPc' = "done"
    /\ UNCHANGED <<fnArg, userIdOf, serviceVars, extensionVars>>

SpecTransform == InitFunction(TransformInputs) /\ [][TransformUsageData]_vars

-----------------------------------------------------------------------------
(* CursorApiService.transformUsageEvents and the ordering of events *)

\* An entry of usageEventsDisplay, the fields the code reads.  tokenUsage is
\* missing (<<>>) or a record of four optional counts; usageBasedCosts is a cost
\* value as parseCost takes it; model and kind are strings or Absent.
TokenUsage(cacheWrite, cacheRead, input, output) ==
    <<[cacheWriteTokens |-> cacheWrite, cacheReadTokens |-> cacheRead,
       inputTokens |-> input, outputTokens |-> output]>>

\* event.tokenUsage?.part || 0
TokenPart(tokenUsage, part) ==
    IF tokenUsage = <<>> THEN 0 ELSE OrElse(tokenUsage[1][part], 0)

\* text || 'Unknown'
OrUnknown(text) == IF text \in {Absent, ""} THEN "Unknown" ELSE text

\* new Date(parseInt(timestamp)).toLocaleDateString() and .toLocaleTimeString():
\* kept as the instant they render, the locale's format is not modelled.
LocaleDateString(ms) == [dateOf |-> ms]

LocaleTimeString(ms) == [timeOf |-> ms]

transformUsageEvent(event) ==
    LET eventDate == parseInt(event.timestamp)
        costInfo  == parseCost(event.usageBasedCosts)
        tokens    == TokenPart(event.tokenUsage, "cacheWriteTokens")
                       + TokenPart(event.tokenUsage, "cacheReadTokens")
                       + TokenPart(event.tokenUsage, "inputTokens")
                       + TokenPart(event.tokenUsage, "outputTokens")
    IN  [timestamp   |-> event.timestamp,
         date        |-> LocaleDateString(eventDate),
         time        |-> LocaleTimeString(eventDate),
         model       |-> OrUnknown(event.model),
         tokens      |-> tokens,
         cost        |-> costInfo.numericValue,
         costDisplay |-> costInfo.displayValue,
         kind        |-> OrUnknown(event.kind)]

\* usageEventsDisplay.map(...)
transformUsageEvents(usageEventsDisplay) ==
    [i \in 1..Len(usageEventsDisplay) |-> transformUsageEvent(usageEventsDisplay[i])]

\* Faulty variant: the comparator is the other way round, oldest first.
CompareEventsAscending(a, b) ==
    LET ta == parseInt(a.timestamp)
        tb == parseInt(b.timestamp)
    IN  IF ta = NaN \/ tb = NaN THEN 0 ELSE ta.n - tb.n

\* The comparator (a, b) => parseInt(b.timestamp) - parseInt(a.timestamp):
\* negative when a goes first.  A NaN difference counts as 0.
CompareEvents(a, b) ==
    LET ta == parseInt(a.timestamp)
        tb == parseInt(b.timestamp)
    IN  IF ta = NaN \/ tb = NaN THEN 0 ELSE tb.n - ta.n

\* e placed behind every element that does not have to follow it.
RECURSIVE InsertEvent(_, _)
InsertEvent(sorted, e) ==
    IF sorted = <<>> THEN <<e>>
    ELSE IF CompareEvents(sorted[Len(sorted)], e) <= 0 THEN Append(sorted, e)
    ELSE Append(InsertEvent(SubSeq(sorted, 1, Len(sorted) - 1), e), sorted[Len(sorted)])

\* events.sort(comparator): Array.prototype.sort is stable.
RECURSIVE SortEvents(_)
SortEvents(events) ==
    IF events = <<>> THEN <<>>
    ELSE InsertEvent(SortEvents(SubSeq(events, 1, Len(events) - 1)), events[Len(events)])

\* events.reduce((sum, e) => sum + e.cost, 0), in exact decimal arithmetic.
RECURSIVE SumCost(_)
SumCost(events) ==
    IF events = <<>> THEN Whole(0)
    ELSE DecAdd(SumCost(SubSeq(events, 1, Len(events) - 1)), events[Len(events)].cost)

\* events.reduce((sum, e) => sum + e.tokens, 0)
RECURSIVE SumTokens(_)
SumTokens(events) ==
    IF events = <<>> THEN 0
    ELSE SumTokens(SubSeq(events, 1, Len(events) - 1)) + events[Len(events)].tokens

-----------------------------------------------------------------------------
(* ApiResponse values and the three fetchers' results *)

\* ApiResponse<T>: data is <<>> when missing or falsy and <<payload>> otherwise,
\* error is "" when missing.
ApiSuccess(payload) == [success |-> TRUE, data |-> <<payload>>, error |-> ""]

ApiFailure(message) == [success |-> FALSE, data |-> <<>>, error |-> message]

NoResponse == [success |-> FALSE, data |-> <<>>, error |-> "<no response>"]

\* The error text makeApiRequest resolves with; the status, body and transport
\* detail that some of the texts end with are left out.
ApiError(http) ==
    CASE http = "auth"    -> "Authentication failed. Please check your session token."
      [] http = "status"  -> "API returned status"
      [] http = "parse"   -> "Failed to parse API response"
      [] http = "network" -> "Network error"
      [] http = "timeout" -> "Request timed out"

\* What makeApiRequest resolves with when the exchange ends as http, payload
\* being the parsed body of a 200 answer.
makeApiRequest(http, payload) ==
    IF http = "ok" THEN ApiSuccess(payload)
    ELSE IF http = "empty" THEN [success |-> TRUE, data |-> <<>>, error |-> ""]
    ELSE ApiFailure(ApiError(http))

\* response.error || fallback
ErrorOr(response, fallback) == IF response.error = "" THEN fallback ELSE response.error

\* fetchUsageData from the answer of GET /usage on, up to the exhaustion test.
fetchUsageDataResult(response, billingModel) ==
    IF ~response.success \/ response.data = <<>>
    THEN ApiFailure(ErrorOr(response, "Failed to fetch usage data"))
    ELSE ApiSuccess(transformUsageData(response.data[1], billingModel))

\* What fetchTeamSpend returns: null (<<>>) or the spend and the team's name.
NoTeamSpend == <<>>

TeamSpend(cents, name) == <<[maxUserSpendCents |-> cents, teamName |-> name]>>

\* Lines 961-965: the spend, when there is one, is attached to the usage data.
WithTeamSpend(usageResponse, teamSpend) ==
    IF teamSpend = NoTeamSpend THEN usageResponse
    ELSE ApiSuccess([usageBasedCostCents |-> teamSpend[1].maxUserSpendCents,
                     teamName |-> teamSpend[1].teamName] @@ usageResponse.data[1])

\* The usageEventsDisplay member of an events payload: missing or falsy, an
\* array of entries, or a truthy value that is not an array.
NoDisplay == [kind |-> "missing", items |-> <<>>]

DisplayOf(entries) == [kind |-> "array", items |-> entries]

BadDisplay == [kind |-> "other", items |-> <<>>]

\* Faulty variant: a payload without usageEventsDisplay is taken for a failure.
fetchUsageEventsResultStrict(response) ==
    IF ~response.success \/ response.data = <<>>
    THEN ApiFailure(ErrorOr(response, "Failed to fetch usage events"))
    ELSE LET display == response.data[1].usageEventsDisplay
         IN  IF display.kind # "array" THEN ApiFailure("Failed to fetch usage events")
             ELSE ApiSuccess(transformUsageEvents(display.items))

\* fetchUsageEvents from the answer of the events request on.  Mapping over a
\* value that is not an array throws, and the catch turns it into a failure.
fetchUsageEventsResult(response) ==
    IF ~response.success \/ response.data = <<>>
    THEN ApiFailure(ErrorOr(response, "Failed to fetch usage events"))
    ELSE LET display == response.data[1].usageEventsDisplay
         IN  IF display.kind = "missing" THEN ApiSuccess(<<>>)
             ELSE IF display.kind = "other"
                  THEN ApiFailure("response.usageEventsDisplay.map is not a function")
             ELSE ApiSuccess(transformUsageEvents(display.items))

-----------------------------------------------------------------------------
(* CursorApiService.fetchCombinedUsageData: the records it builds *)

\* The values Math.round can give for the quotient num / den of two naturals,
\* den > 0.  A half-way case rounds up, unless the double computed for the
\* quotient falls just short of the half (0.145 * 100 is 14.499999999999998),
\* and then down; which of the two happens depends on the operands.
MathRound(num, den) ==
    LET up == (2 * num + den) \div (2 * den)
    IN  IF (2 * num + den) % (2 * den) = 0 THEN {up - 1, up} ELSE {up}

\* Lines 1362-1363.
StartOfMonth(now) == NewDate(now.y, now.m, 1)

\* Faulty variant: the window ends on the first day of the next month.
EndOfMonthFirstOfNext(now) == NewDate(now.y, now.m + 1, 1)

EndOfMonth(now) == NewDate(now.y, now.m + 1, 0)

\* Faulty variant: the events are also fetched when the quota is nearly used up.
WantsUsageEventsNearLimit(billingModel, usageResponse) ==
    \/ billingModel = "usage-based"
    \/ /\ usageResponse.success
       /\ usageResponse.data # <<>>
       /\ 100 * usageResponse.data[1].premiumRequestsUsed
            >= 95 * usageResponse.data[1].premiumRequestsLimit

\* Lines 1369-1370.
WantsUsageEvents(billingModel, usageResponse) ==
    \/ billingModel = "usage-based"
    \/ /\ usageResponse.success
       /\ usageResponse.data # <<>>
       /\ usageResponse.data[1].isPremiumExhausted

\* Line 1374.
HasEvents(eventsResponse) ==
    /\ eventsResponse.success
    /\ eventsResponse.data # <<>>
    /\ Len(eventsResponse.data[1]) > 0

UsageBasedData(todayCost, todayTokens, recentEvents, periodStart, periodEnd) ==
    [billingType  |-> "usage-based",
     requestBased |-> <<>>,
     usageBased   |-> <<[todayCost |-> todayCost, todayTokens |-> todayTokens,
                         recentEvents |-> recentEvents]>>,
     periodStart  |-> periodStart,
     periodEnd    |-> periodEnd]

RequestBasedData(used, limit, percentage, periodStart, periodEnd) ==
    [billingType  |-> "request-based",
     requestBased |-> <<[used |-> used, limit |-> limit, percentage |-> percentage]>>,
     usageBased   |-> <<>>,
     periodStart  |-> periodStart,
     periodEnd    |-> periodEnd]

\* Lines 1375-1391.
UsageBasedFromEvents(events, now) ==
    UsageBasedData(SumCost(events), SumTokens(events), SortEvents(events),
                   StartOfMonth(now), EndOfMonth(now))

\* Lines 1396-1408.
UsageBasedEmpty(now) ==
    UsageBasedData(Whole(0), 0, <<>>, StartOfMonth(now), EndOfMonth(now))

\* Line 1415: data.premiumRequestsLimit || 50
RequestLimit(data) ==
    IF data.premiumRequestsLimit = 0 THEN 50 ELSE data.premiumRequestsLimit

\* Faulty variant: the percentage is cut off instead of rounded.
PercentagesTruncated(used, limit) == IF limit > 0 THEN {(100 * used) \div limit} ELSE {0}

\* Line 1423.
Percentages(used, limit) == IF limit > 0 THEN MathRound(100 * used, limit) ELSE {0}

\* Lines 1414-1427: the record, one for each value the rounding can give.
RequestBasedFromQuota(data) ==
    LET limit == RequestLimit(data)
    IN  {RequestBasedData(data.premiumRequestsUsed, limit, percentage,
                          data.periodStart, data.periodEnd) :
            percentage \in Percentages(data.premiumRequestsUsed, limit)}

\* Faulty variant: a failed quota request is papered over with an empty record.
RequestBasedResultsSubstituted(usageResponse) ==
    IF usageResponse.success /\ usageResponse.data # <<>>
    THEN {ApiSuccess(data) : data \in RequestBasedFromQuota(usageResponse.data[1])}
    ELSE {ApiSuccess(RequestBasedData(0, 50, 0, InvalidDate, InvalidDate))}

\* Lines 1412-1434: what the call returns once the events branch has not returned.
RequestBasedResults(usageResponse) ==
    IF usageResponse.success /\ usageResponse.data # <<>>
    THEN {ApiSuccess(data) : data \in RequestBasedFromQuota(usageResponse.data[1])}
    ELSE {ApiFailure(ErrorOr(usageResponse, "Failed to fetch usage data"))}

\* Faulty variant: a failure of the events request becomes the call's failure.
ResultsAfterEventsFatal(billingModel, now, usageResponse, eventsResponse) ==
    IF ~eventsResponse.success
    THEN {ApiFailure(eventsResponse.error)}
    ELSE IF HasEvents(eventsResponse)
    THEN {ApiSuccess(UsageBasedFromEvents(eventsResponse.data[1], now))}
    ELSE IF billingModel = "usage-based"
    THEN {ApiSuccess(UsageBasedEmpty(now))}
    ELSE RequestBasedResults(usageResponse)

\* Faulty variant: the classified model decides the variant, the events of an
\* exhausted request-based account are dropped.
ResultsAfterEventsByModel(billingModel, now, usageResponse, eventsResponse) ==
    IF billingModel # "usage-based"
    THEN RequestBasedResults(usageResponse)
    ELSE IF HasEvents(eventsResponse)
    THEN {ApiSuccess(UsageBasedFromEvents(eventsResponse.data[1], now))}
    ELSE {ApiSuccess(UsageBasedEmpty(now))}

\* Lines 1374-1410: what the call returns once fetchUsageEvents has answered.
ResultsAfterEvents(billingModel, now, usageResponse, eventsResponse) ==
    IF HasEvents(eventsResponse)
    THEN {ApiSuccess(UsageBasedFromEvents(eventsResponse.data[1], now))}
    ELSE IF billingModel = "usage-based"
    THEN {ApiSuccess(UsageBasedEmpty(now))}
    ELSE RequestBasedResults(usageResponse)

-----------------------------------------------------------------------------
(* CursorApiService.fetchCombinedUsageData as a state machine *)

\* The largest number of entries an events payload carries here.
MaxEvents == 3

\* The days on which the call runs: the last day of a year, a leap day.
Nows == {DateOf(2025, 11, 31), DateOf(2024, 1, 29)}

\* Quota payloads of the calls: no gpt-4 entry, no count, 96% and 99% of a
\* static limit, at a limit, a half-way percentage, a per-account maximum of 0.
FetchGpt4Entries ==
    {<<>>,
     <<ModelUsage(<<>>, <<>>)>>,
     <<ModelUsage(<<48>>, <<>>)>>,
     <<ModelUsage(<<50>>, <<>>)>>,
     <<ModelUsage(<<495>>, <<>>)>>,
     <<ModelUsage(<<500>>, <<500>>)>>,
     <<ModelUsage(<<29>>, <<200>>)>>,
     <<ModelUsage(<<1>>, <<0>>)>>}

FetchUpstreamDates == {InvalidDate, DateOf(2024, 1, 1), DateOf(2025, 0, 31)}

FetchQuotaResponses ==
    [gpt4 : FetchGpt4Entries, gpt35 : {<<ModelUsage(<<10>>, <<>>)>>}, gpt432k : {<<>>},
     startOfMonth : FetchUpstreamDates]

\* Entries of usageEventsDisplay: a string cost with every token part, a
\* numeric cost without tokenUsage, and no cost with some token parts and the
\* timestamp of the entry before.  Timestamps are decimal digit strings.
EventSamples ==
    {[timestamp |-> <<"9">>, model |-> "gpt-4", kind |-> "usage",
      tokenUsage |-> TokenUsage(<<1>>, <<2>>, <<3>>, <<4>>),
      usageBasedCosts |-> CostString(<<"$", "0", ".", "1", "0">>)],
     [timestamp |-> <<"1", "0">>, model |-> Absent, kind |-> Absent,
      tokenUsage |-> <<>>,
      usageBasedCosts |-> CostNumber(Decimal(5, 2))],
     [timestamp |-> <<"1", "0">>, model |-> "claude", kind |-> "",
      tokenUsage |-> TokenUsage(<<>>, <<0>>, <<7>>, <<100>>),
      usageBasedCosts |-> CostOther("undefined")]}

EventLists == UNION {[1..n -> EventSamples] : n \in 0..MaxEvents}

EventsPayloads ==
    {[usageEventsDisplay |-> display] :
        display \in {NoDisplay, BadDisplay} \cup {DisplayOf(entries) : entries \in EventLists}}

\* The outcomes of fetchTeamSpend: no team, a team but no spend, a spend.
TeamSpendOutcomes == {"no team", "no spend", "spend"}

\* The locals of a fetchCombinedUsageData call:
\*   arg            configBillingModel
\*   billingModel   what detectBillingModel returned
\*   now            the day read at line 1361
\*   asked          the endpoints requested so far, in order
\*   quota, events  how the exchanges of GET /usage and of the events request ended
\*   gpt4, upstream the gpt-4 entry and the startOfMonth of a 200 quota answer
\*   display        what the usageEventsDisplay member of a 200 events answer was
\*   entries        its entries, when it was an array
\*   usageResponse  what fetchUsageData returned
\*   eventsResponse what fetchUsageEvents returned
FetchCall(configBillingModel) ==
    [op |-> "fetchCombinedUsageData", pc |-> "idle", arg |-> configBillingModel,
     billingModel |-> NoModel, now |-> InvalidDate, asked |-> <<>>,
     quota |-> "none", events |-> "none", gpt4 |-> <<>>, upstream |-> InvalidDate,
     display |-> "none", entries |-> <<>>,
     usageResponse |-> NoResponse, eventsResponse |-> NoResponse, result |-> NoResponse]

\* Line 1366 reached with the billing model: the day is read and GET /usage is
\* sent (the guard of fetchUsageData holds, the credentials are those of line 1348).
AskUsage(c, billingModel, now) ==
    [c EXCEPT !.pc = "usage_wait", !.billingModel = billingModel, !.now = now,
              !.asked = Append(@, "/usage")]

\* Lines 1347-1357: refused without credentials; otherwise the billing model
\* comes from the cache or the profile request goes out.
FetchCombinedUsageData(p) ==
    /\ UNCHANGED <<sessionToken, userId, detectedBillingModel, secret>>
    /\ \E configBillingModel \in {"free", "usage-based"} :
        LET c == FetchCall(configBillingModel)
        IN  IF ~HasCredentials
            THEN /\ Enter(p, Return(c, ApiFailure("Not authenticated")))
                 /\ lastDetect' = lastDetect
            ELSE IF detectedBillingModel # NoModel
            THEN /\ \E now \in Nows : Enter(p, AskUsage(c, detectedBillingModel, now))
                 /\ lastDetect' = [result |-> detectedBillingModel, obtained |-> TRUE,
                                   sent |-> FALSE]
            ELSE /\ Enter(p, [c EXCEPT !.pc = "profile_wait", !.asked = <<"/auth/stripe">>])
                 /\ lastDetect' = lastDetect

\* Lines 1178-1210 within the call: the profile is classified and cached.
FetchProfileResponse(p) ==
    LET c == call[p]
    IN  /\ c.pc = "profile_wait"
        /\ UNCHANGED <<sessionToken, userId, secret>>
        /\ \E info \in SampleProfiles, now \in Nows :
                LET model == ClassifyBilling(info)
                IN  /\ detectedBillingModel' = model
                    /\ Step(p, AskUsage(c, model, now))
                    /\ lastDetect' = [result |-> model, obtained |-> TRUE, sent |-> TRUE]

\* Faulty variant: without a profile the configured billing model is used.
FetchProfileErrorConfigured(p) ==
    LET c == call[p]
    IN  /\ c.pc = "profile_wait"
        /\ UNCHANGED <<sessionToken, userId, secret, detectedBillingModel>>
        /\ \E now \in Nows : Step(p, AskUsage(c, c.arg, now))
        /\ lastDetect' = [result |-> c.arg, obtained |-> FALSE, sent |-> TRUE]

\* Lines 1212-1217 within the call: no profile, 'free', nothing cached.
FetchProfileError(p) ==
    LET c == call[p]
    IN  /\ c.pc = "profile_wait"
        /\ UNCHANGED <<sessionToken, userId, secret, detectedBillingModel>>
        /\ \E now \in Nows : Step(p, AskUsage(c, "free", now))
        /\ lastDetect' = [result |-> "free", obtained |-> FALSE, sent |-> TRUE]

\* Lines 1368-1372 and 1412-1434 once fetchUsageData has returned: the events
\* request goes out, or the call returns.
AfterUsageData(p, c, usageResponse) ==
    LET got == [c EXCEPT !.usageResponse = usageResponse]
    IN  IF WantsUsageEvents(c.billingModel, usageResponse)
        THEN Step(p, [got EXCEPT !.pc = "events_wait",
                                 !.asked = Append(@, "/dashboard/get-filtered-usage-events")])
        ELSE \E result \in RequestBasedResults(usageResponse) : Step(p, Return(got, result))

\* Lines 948-960: GET /usage has ended; with the premium quota exhausted
\* fetchUsageData goes on to the team requests.
FetchUsageDataResponse(p) ==
    LET c == call[p]
    IN  /\ c.pc = "usage_wait"
        /\ UNCHANGED <<sessionToken, userId, detectedBillingModel, secret, lastDetect>>
        /\ \E http \in HttpOutcomes, payload \in FetchQuotaResponses :
                LET usageResponse ==
                        fetchUsageDataResult(makeApiRequest(http, payload), c.billingModel)
                    got == [c EXCEPT !.quota = http,
                                     !.gpt4 = IF http = "ok" THEN payload.gpt4 ELSE <<>>,
                                     !.upstream = IF http = "ok" THEN payload.startOfMonth
                                                  ELSE InvalidDate]
                IN  IF usageResponse.success /\ usageResponse.data[1].isPremiumExhausted
                    THEN Step(p, [got EXCEPT !.pc = "teams_wait",
                                             !.usageResponse = usageResponse,
                                             !.asked = Append(@, "/dashboard/teams")])
                    ELSE AfterUsageData(p, got, usageResponse)

\* Lines 961-971 and 983-1025: fetchTeamSpend has returned, after the teams
\* request alone or after the spend request as well; fetchUsageData returns.
FetchTeamSpendResponse(p) ==
    LET c == call[p]
    IN  /\ c.pc = "teams_wait"
        /\ UNCHANGED <<sessionToken, userId, detectedBillingModel, secret, lastDetect>>
        /\ \E outcome \in TeamSpendOutcomes :
                LET teamSpend == IF outcome = "spend" THEN TeamSpend(1250, "team") ELSE NoTeamSpend
                    asked     == IF outcome = "no team" THEN c.asked
                                 ELSE Append(c.asked, "/dashboard/get-team-spend")
                IN  AfterUsageData(p, [c EXCEPT !.asked = asked],
                                   WithTeamSpend(c.usageResponse, teamSpend))

\* Lines 1260-1285 and 1374-1434: the events request has ended and the call returns.
FetchUsageEventsAnswered(p, http, payload) ==
    LET c == call[p]
    IN  /\ c.pc = "events_wait"
        /\ UNCHANGED <<sessionToken, userId, detectedBillingModel, secret, lastDetect>>
        /\ LET eventsResponse == fetchUsageEventsResult(makeApiRequest(http, payload))
           IN  \E result \in ResultsAfterEvents(c.billingModel, c.now, c.usageResponse,
                                                eventsResponse) :
                    Step(p, Return([c EXCEPT !.events = http,
                                             !.display = IF http = "ok"
                                                         THEN payload.usageEventsDisplay.kind
                                                         ELSE "none",
                                             !.entries = IF http = "ok"
                                                         THEN payload.usageEventsDisplay.items
                                                         ELSE <<>>,
                                             !.eventsResponse = eventsResponse], result))

\* The events request ends in any of the ways it can end.
FetchUsageEventsResponse(p) ==
    \E http \in HttpOutcomes, payload \in EventsPayloads :
        FetchUsageEventsAnswered(p, http, payload)

\* The service before a refresh: without credentials, or with the credential a
\* setSessionToken call installed and the billing model an earlier call cached.
InitFetch ==
    /\ ExtensionNotStarted
    /\ sessionToken \in {NullStr, TokCookie}
    /\ userIdOf = UserIds
    /\ userId = userIdOf[sessionToken]
    /\ secret = sessionToken
    /\ detectedBillingModel \in
            IF sessionToken = NullStr THEN {NoModel} ELSE Models \cup {NoModel}
    /\ lastDetect = IF detectedBillingModel = NoModel THEN NoDetect
                    ELSE [result |-> detectedBillingModel, obtained |-> TRUE, sent |-> TRUE]
    /\ call = [p \in Procs |-> IdleCall]
    /\ fnArg = NullStr
    /\ fnRes = NullStr
    /\ fnPc = "unused"

NextFetch ==
    \E p \in Procs :
        \/ FetchCombinedUsageData(p) /\ UNCHANGED <<fnVars, extensionVars>>
        \/ FetchProfileResponse(p) /\ UNCHANGED <<fnVars, extensionVars>>
        \/ FetchProfileError(p) /\ UNCHANGED <<fnVars, extensionVars>>
        \/ FetchUsageDataResponse(p) /\ UNCHANGED <<fnVars, extensionVars>>
        \/ FetchTeamSpendResponse(p) /\ UNCHANGED <<fnVars, extensionVars>>
        \/ FetchUsageEventsResponse(p) /\ UNCHANGED <<fnVars, extensionVars>>

SpecFetch == InitFetch /\ [][NextFetch]_vars

-----------------------------------------------------------------------------
(* Properties of fetchCombinedUsageData *)

\* A completed fetchCombinedUsageData call.
FetchDone(c) == c.op = "fetchCombinedUsageData" /\ c.pc = "done"

\* The exchange ended without a 200 answer.
RequestFailed(http) == http \in {"parse", "auth", "status", "network", "timeout"}

\* C11, as stated: when the quota request fails, the call fails with that
\* request's error and returns no usage record, whatever the billing model.
C11_QuotaFailureFailsForEveryModel ==
    \A p \in Procs :
        LET c == call[p]
        IN  FetchDone(c) /\ RequestFailed(c.quota)
                => /\ ~c.result.success
                   /\ c.result.error = ApiError(c.quota)
                   /\ c.result.data = <<>>

\* C11, amended: when the quota request fails and the effective billing model
\* is not usage-based, the call fails with that request's error, returns no
\* usage record and has not asked for events; for a usage-based account the
\* events are requested all the same and the call succeeds with a usage-based
\* record.
C11_QuotaFailureFailsUnlessUsageBased ==
    \A p \in Procs :
        LET c == call[p]
        IN  FetchDone(c) /\ RequestFailed(c.quota)
                => IF c.billingModel # "usage-based"
                   THEN /\ ~c.result.success
                        /\ c.result.error = ApiError(c.quota)
                        /\ c.result.data = <<>>
                        /\ c.events = "none"
                   ELSE /\ c.events # "none"
                        /\ c.result.success
                        /\ c.result.data[1].billingType = "usage-based"

\* A pro account's quota request timed out and the call failed with that error;
\* the billing model had been detected by this same call.
C11_Witness ==
    \E p \in Procs :
        LET c == call[p]
        IN  /\ FetchDone(c)
            /\ c.billingModel = "pro"
            /\ c.asked = <<"/auth/stripe", "/usage">>
            /\ c.quota = "timeout"
            /\ c.result = ApiFailure("Request timed out")

\* The call asked for events and fetchUsageEvents reported a failure.
EventsFailed(c) == c.events # "none" /\ ~c.eventsResponse.success

\* The record is the usage-based variant with no cost, no tokens and no events.
IsZeroUsageBased(data) ==
    /\ data.billingType = "usage-based"
    /\ data.requestBased = <<>>
    /\ data.usageBased # <<>>
    /\ data.usageBased[1].todayCost = Whole(0)
    /\ data.usageBased[1].todayTokens = 0
    /\ data.usageBased[1].recentEvents = <<>>

\* The record is the request-based variant.
IsRequestBased(data) ==
    /\ data.billingType = "request-based"
    /\ data.requestBased # <<>>
    /\ data.usageBased = <<>>

\* C12: when the quota request succeeded and the events request failed, the
\* call succeeds: with a request-based record carrying the quota's premium
\* count when the effective model is not usage-based, with a zero-valued
\* usage-based record when it is.
C12_EventsFailureIsNotFatal ==
    \A p \in Procs :
        LET c == call[p]
        IN  FetchDone(c) /\ c.usageResponse.success /\ EventsFailed(c)
                => /\ c.result.success
                   /\ c.result.data # <<>>
                   /\ IF c.billingModel = "usage-based"
                      THEN IsZeroUsageBased(c.result.data[1])
                      ELSE /\ IsRequestBased(c.result.data[1])
                           /\ c.result.data[1].requestBased[1].used
                                = c.usageResponse.data[1].premiumRequestsUsed

\* A pro account at its limit: the quota request succeeded, the events request
\* hit a network error, and the call returned the request-based record.
C12_Witness ==
    \E p \in Procs :
        LET c == call[p]
        IN  /\ FetchDone(c)
            /\ c.billingModel = "pro"
            /\ c.quota = "ok"
            /\ c.events = "network"
            /\ c.result.success
            /\ c.result.data[1].billingType = "request-based"
            /\ c.result.data[1].requestBased[1].used = 500

\* The call has requested the events endpoint.
AskedEvents(c) ==
    \E i \in 1..Len(c.asked) : c.asked[i] = "/dashboard/get-filtered-usage-events"

\* fetchUsageData has returned and the call has passed the test of line 1369.
PastEventsTest(c) ==
    /\ c.op = "fetchCombinedUsageData"
    /\ c.pc \in {"events_wait", "done"}
    /\ c.quota # "none"

\* C13: the events endpoint is requested exactly when the effective model is
\* usage-based or the quota response shows premium used >= premium limit; a
\* non-usage-based account strictly below its limit gets no events request.
C13_EventsRequestedIffUsageBasedOrExhausted ==
    \A p \in Procs :
        LET c == call[p]
            data == c.usageResponse.data[1]
        IN  PastEventsTest(c)
                => /\ AskedEvents(c)
                        <=> \/ c.billingModel = "usage-based"
                            \/ /\ c.usageResponse.success
                               /\ data.premiumRequestsUsed >= data.premiumRequestsLimit
                   /\ (/\ c.billingModel # "usage-based"
                       /\ c.usageResponse.success
                       /\ data.premiumRequestsUsed < data.premiumRequestsLimit)
                        => (~AskedEvents(c) /\ c.events = "none")

\* A pro account at 495 of 500 premium requests (99%) got its request-based
\* record without an events request.
C13_Witness ==
    \E p \in Procs :
        LET c == call[p]
        IN  /\ FetchDone(c)
            /\ c.billingModel = "pro"
            /\ c.usageResponse.success
            /\ c.usageResponse.data[1].premiumRequestsUsed = 495
            /\ c.usageResponse.data[1].premiumRequestsLimit = 500
            /\ c.result.success
            /\ c.result.data[1].requestBased[1].percentage = 99
            /\ ~AskedEvents(c)

\* The quota response of the call shows the premium quota used up.
QuotaExhausted(c) ==
    /\ c.usageResponse.success
    /\ c.usageResponse.data[1].premiumRequestsUsed
            >= c.usageResponse.data[1].premiumRequestsLimit

\* The events request of the call returned at least one event.
GotEvents(c) ==
    /\ c.events = "ok"
    /\ c.eventsResponse.success
    /\ Len(c.eventsResponse.data[1]) >= 1

\* The record is the usage-based variant.
IsUsageBased(data) ==
    /\ data.billingType = "usage-based"
    /\ data.usageBased # <<>>
    /\ data.requestBased = <<>>

\* C14: a free, pro or business account with its premium quota exhausted and at
\* least one event returned gets the usage-based variant holding those events;
\* in every other case in which it gets a record, the record is the
\* request-based variant (it gets none when the quota request failed); a
\* usage-based account always gets the usage-based variant.
C14_ExhaustedAccountWithEventsGetsUsageBased ==
    \A p \in Procs :
        LET c == call[p]
        IN  FetchDone(c) /\ c.billingModel # NoModel
                => IF c.billingModel = "usage-based"
                   THEN c.result.success /\ IsUsageBased(c.result.data[1])
                   ELSE IF QuotaExhausted(c) /\ GotEvents(c)
                   THEN /\ c.result.success
                        /\ IsUsageBased(c.result.data[1])
                        /\ Len(c.result.data[1].usageBased[1].recentEvents)
                                = Len(c.eventsResponse.data[1])
                   ELSE IF c.usageResponse.success
                   THEN c.result.success /\ IsRequestBased(c.result.data[1])
                   ELSE ~c.result.success /\ c.result.data = <<>>

\* A free account at 50 of 50 premium requests whose events request returned
\* two events got the usage-based variant with both.
C14_Witness ==
    \E p \in Procs :
        LET c == call[p]
        IN  /\ FetchDone(c)
            /\ c.billingModel = "free"
            /\ QuotaExhausted(c)
            /\ c.usageResponse.data[1].premiumRequestsLimit = 50
            /\ GotEvents(c)
            /\ c.result.success
            /\ c.result.data[1].billingType = "usage-based"
            /\ Len(c.result.data[1].usageBased[1].recentEvents) = 2

\* The events request was answered with no event: a payload without
\* usageEventsDisplay, or one whose usageEventsDisplay is an empty array.
GotNoEvents(c) ==
    /\ c.events = "ok"
    /\ \/ c.display = "missing"
       \/ c.display = "array" /\ c.eventsResponse.data = <<<<>>>>

\* C15: for a usage-based account an events answer with zero events, the empty
\* object included, is reported by fetchUsageEvents as success with an empty
\* list, and the call succeeds with a usage-based record of cost 0, 0 tokens
\* and no events.
C15_NoEventsGivesZeroRecord ==
    \A p \in Procs :
        LET c == call[p]
        IN  FetchDone(c) /\ c.billingModel = "usage-based" /\ GotNoEvents(c)
                => /\ c.eventsResponse.success
                   /\ c.eventsResponse.data = <<<<>>>>
                   /\ c.result.success
                   /\ c.result.error = ""
                   /\ IsZeroUsageBased(c.result.data[1])

\* A usage-based account whose events answer was an object without
\* usageEventsDisplay got the zero record.
C15_Witness ==
    \E p \in Procs :
        LET c == call[p]
        IN  /\ FetchDone(c)
            /\ c.billingModel = "usage-based"
            /\ c.quota = "ok"
            /\ c.events = "ok"
            /\ c.display = "missing"
            /\ c.result.success
            /\ c.result.data[1].usageBased[1].todayTokens = 0
            /\ c.result.data[1].usageBased[1].recentEvents = <<>>

\* The call returned a request-based record.
GotRequestBased(c) ==
    FetchDone(c) /\ c.result.success /\ c.result.data[1].billingType = "request-based"

\* The gpt-4 request count and the per-account maximum of the quota answer, as
\* optional numbers.
AnsweredUsed(c) == NumRequestsOf(c.gpt4)

AnsweredMax(c) == MaxRequestUsageOf(c.gpt4)

\* p is x rounded to the nearest integer, for x = num / den with den > 0.
IsRounded(p, num, den) == 2 * num - den <= 2 * den * p /\ 2 * den * p <= 2 * num + den

\* C16, as stated: used is the premium count, limit is the maximum the quota
\* endpoint provided and 50 when it provided none, for every billing model, and
\* percentage is used / limit * 100 rounded.
C16_LimitDefaultsToFifty ==
    \A p \in Procs :
        LET c == call[p]
            record == c.result.data[1].requestBased[1]
        IN  GotRequestBased(c)
                => /\ record.used = (IF AnsweredUsed(c) = <<>> THEN 0 ELSE AnsweredUsed(c)[1])
                   /\ record.limit = (IF AnsweredMax(c) = <<>> THEN 50 ELSE AnsweredMax(c)[1])
                   /\ IsRounded(record.percentage, 100 * record.used, record.limit)

\* C16, amended: used is the premium count, limit is the maximum the quota
\* endpoint provided when that is a number other than 0 and the static premium
\* limit of the effective billing model otherwise (50 for free, 500 for pro and
\* business), and percentage is used / limit * 100 rounded.
C16_LimitDefaultsToModelLimit ==
    \A p \in Procs :
        LET c == call[p]
            record == c.result.data[1].requestBased[1]
            static == IF c.billingModel = "free" THEN 50 ELSE 500
        IN  GotRequestBased(c)
                => /\ c.billingModel \in {"free", "pro", "business"}
                   /\ record.used = (IF AnsweredUsed(c) = <<>> THEN 0 ELSE AnsweredUsed(c)[1])
                   /\ record.limit = (IF AnsweredMax(c) \in {<<>>, <<0>>} THEN static
                                      ELSE AnsweredMax(c)[1])
                   /\ record.limit > 0
                   /\ IsRounded(record.percentage, 100 * record.used, record.limit)

\* A pro account with 48 premium requests and no maximum in the quota answer
\* got limit 500 and 10 percent.
C16_Witness ==
    \E p \in Procs :
        LET c == call[p]
        IN  /\ GotRequestBased(c)
            /\ c.billingModel = "pro"
            /\ AnsweredUsed(c) = <<48>>
            /\ AnsweredMax(c) = <<>>
            /\ c.result.data[1].requestBased[1] = [used |-> 48, limit |-> 500, percentage |-> 10]

-----------------------------------------------------------------------------
(* Properties of transformUsageData *)

\* The gpt-4 request count of the drawn quota payload, 0 when there is none.
DrawnUsed == LET n == NumRequestsOf(fnArg.response.gpt4) IN IF n = <<>> THEN 0 ELSE n[1]

\* The per-account maximum of the drawn quota payload, as an optional number.
DrawnMax == MaxRequestUsageOf(fnArg.response.gpt4)

\* The static premium limit of the drawn billing model.
DrawnStaticLimit ==
    CASE fnArg.billingModel = "free" -> 50
      [] fnArg.billingModel \in {"pro", "business"} -> 500
      [] fnArg.billingModel = "usage-based" -> 999999

\* C17, as stated: premiumRequestsUsed is the gpt-4 request count,
\* premiumRequestsLimit is the per-account maximum whenever the endpoint
\* returned a number, 0 included, and the model's static limit otherwise, and
\* isPremiumExhausted says used >= limit.
C17_AnyMaximumOverrides ==
    fnPc = "done"
        => /\ fnRes.premiumRequestsUsed = DrawnUsed
           /\ fnRes.premiumRequestsLimit
                = (IF DrawnMax = <<>> THEN DrawnStaticLimit ELSE DrawnMax[1])
           /\ fnRes.isPremiumExhausted
                <=> (fnRes.premiumRequestsUsed >= fnRes.premiumRequestsLimit)

\* C17, amended: premiumRequestsUsed is the gpt-4 request count,
\* premiumRequestsLimit is the per-account maximum when the endpoint returned a
\* number other than 0 and the model's static limit otherwise (no maximum, null
\* or 0), and isPremiumExhausted says used >= limit.
C17_NonZeroMaximumOverrides ==
    fnPc = "done"
        => /\ fnRes.premiumRequestsUsed = DrawnUsed
           /\ fnRes.premiumRequestsLimit
                = (IF DrawnMax \in {<<>>, <<0>>} THEN DrawnStaticLimit ELSE DrawnMax[1])
           /\ fnRes.isPremiumExhausted
                <=> (fnRes.premiumRequestsUsed >= fnRes.premiumRequestsLimit)

\* The payload with 500 of 500 premium requests and 10 standard ones: the
\* record has 500 premium requests used and is exhausted.
C17_Witness ==
    /\ fnPc = "done"
    /\ fnArg.response.gpt4 = <<ModelUsage(<<500>>, <<500>>)>>
    /\ fnArg.response.gpt35 = <<ModelUsage(<<10>>, <<>>)>>
    /\ fnRes.premiumRequestsUsed = 500
    /\ fnRes.premiumRequestsLimit = 500
    /\ fnRes.isPremiumExhausted

-----------------------------------------------------------------------------
(* Properties of the billing window *)

\* The record's window is the calendar month of the day: its first day through
\* its last.
IsCalendarMonthOf(data, day) ==
    /\ data.periodStart = DateOf(day.y, day.m, 1)
    /\ data.periodEnd = DateOf(day.y, day.m, DaysInMonth(day.y, day.m))

\* C18, as stated: every combined record, request-based or usage-based, carries
\* the calendar month containing now, whatever date the quota endpoint returned.
C18_EveryRecordCarriesCalendarMonth ==
    \A p \in Procs :
        LET c == call[p]
        IN  FetchDone(c) /\ c.result.success
                => IsCalendarMonthOf(c.result.data[1], c.now)

\* C18, amended: a usage-based record carries the calendar month containing
\* now, whatever date the quota endpoint returned; a request-based record
\* carries the window of the quota response, from the startOfMonth the
\* endpoint returned to the same day one month later.
C18_UsageBasedRecordCarriesCalendarMonth ==
    \A p \in Procs :
        LET c == call[p]
            data == c.result.data[1]
        IN  FetchDone(c) /\ c.result.success
                => IF data.billingType = "usage-based"
                   THEN IsCalendarMonthOf(data, c.now)
                   ELSE /\ data.periodStart = c.upstream
                        /\ data.periodEnd = AddOneMonth(c.upstream)
                        /\ ~IsCalendarMonthOf(data, c.now)

\* On 31 December 2025 a call built a usage-based record from events: its
\* window is 1 to 31 December 2025, though the quota answer said 1 February 2024.
C18_Witness ==
    \E p \in Procs :
        LET c == call[p]
        IN  /\ FetchDone(c)
            /\ c.now = DateOf(2025, 11, 31)
            /\ c.quota = "ok"
            /\ c.upstream = DateOf(2024, 1, 1)
            /\ GotEvents(c)
            /\ c.result.success
            /\ c.result.data[1].billingType = "usage-based"
            /\ c.result.data[1].periodStart = DateOf(2025, 11, 1)
            /\ c.result.data[1].periodEnd = DateOf(2025, 11, 31)

-----------------------------------------------------------------------------
(* Properties of the usage-based record *)

\* The call built its record from the events of the events answer.
BuiltFromEvents(c) ==
    FetchDone(c) /\ c.result.success /\ c.display = "array" /\ Len(c.entries) >= 1

\* The number of places at which e occurs in events.
Occurrences(events, e) == Cardinality({i \in 1..Len(events) : events[i] = e})

\* The token count of an entry: its four parts, a missing part counted as 0.
EntryTokens(entry) ==
    LET part(x) == IF x = <<>> THEN 0 ELSE x[1]
    IN  IF entry.tokenUsage = <<>> THEN 0
        ELSE part(entry.tokenUsage[1].cacheWriteTokens)
                + part(entry.tokenUsage[1].cacheReadTokens)
                + part(entry.tokenUsage[1].inputTokens)
                + part(entry.tokenUsage[1].outputTokens)

RECURSIVE TokensOfEntries(_)
TokensOfEntries(entries) ==
    IF entries = <<>> THEN 0 ELSE EntryTokens(Head(entries)) + TokensOfEntries(Tail(entries))

RECURSIVE CostOfEvents(_)
CostOfEvents(events) ==
    IF events = <<>> THEN Whole(0) ELSE DecAdd(Head(events).cost, CostOfEvents(Tail(events)))

\* The timestamp of an event as a number.
Timestamp(event) == DigitsValue(event.timestamp)

\* C19: a usage-based record built from N >= 1 returned events holds exactly
\* those N events, newest timestamp first; todayCost is the sum of their
\* numeric costs and todayTokens the sum of their token counts, the four parts
\* of each with a missing part counted as 0.
C19_RecordHoldsTheEventsNewestFirst ==
    \A p \in Procs :
        LET c == call[p]
            record == c.result.data[1].usageBased[1]
            recent == record.recentEvents
            returned == c.eventsResponse.data[1]
        IN  BuiltFromEvents(c)
                => /\ c.result.data[1].billingType = "usage-based"
                   /\ Len(recent) = Len(c.entries)
                   /\ \A i \in 1..Len(returned) :
                        /\ returned[i].timestamp = c.entries[i].timestamp
                        /\ Occurrences(recent, returned[i]) = Occurrences(returned, returned[i])
                   /\ \A i, j \in 1..Len(recent) :
                        i < j => Timestamp(recent[i]) >= Timestamp(recent[j])
                   /\ record.todayCost = CostOfEvents(recent)
                   /\ record.todayTokens = TokensOfEntries(c.entries)

\* Three events with costs "$0.10", 0.05 and none, returned oldest first: the
\* record lists them newest first, with cost 0.15 and 117 tokens.
C19_Witness ==
    \E p \in Procs :
        LET c == call[p]
            record == c.result.data[1].usageBased[1]
        IN  /\ BuiltFromEvents(c)
            /\ Len(c.entries) = 3
            /\ c.entries[1].usageBasedCosts = CostString(<<"$", "0", ".", "1", "0">>)
            /\ c.entries[2].usageBasedCosts = CostNumber(Decimal(5, 2))
            /\ c.entries[3].usageBasedCosts = CostOther("undefined")
            /\ [i \in 1..3 |-> record.recentEvents[i].timestamp]
                    = <<<<"1", "0">>, <<"1", "0">>, <<"9">>>>
            /\ record.todayCost = Decimal(15, 2)
            /\ record.todayTokens = 117

-----------------------------------------------------------------------------
(* parseCost on enumerated costs *)

\* The longest string cost drawn from CostChars.
MaxCostLen == 4

\* Currency signs, separators, a sign, digits and a letter.
CostChars == {"$", ",", ".", "-", "1", "5", "0", "a"}

CostStrings == UNION {[1..n -> CostChars] : n \in 0..MaxCostLen}

\* Longer string costs: the documented example, an exponent, blanks, Infinity.
LongCostStrings ==
    {<<"$", "1", ",", "2", "3", "4", ".", "5", "0">>,
     <<"$", "1", ",", "0", "0", "0", ",", "0", "0", "0">>,
     <<" ", "$", "2", "e", "1">>,
     <<"$", "I", "n", "f", "i", "n", "i", "t", "y">>,
     <<"f", "r", "e", "e">>}

\* Numeric costs as JSON carries them: finite, here without a half-way third decimal.
CostNumbers ==
    {Whole(0), Whole(42), Whole(-3), Decimal(5, 2), Decimal(126, 3), Decimal(4, 3),
     Decimal(-5, 1), Decimal(12345, 1), Decimal(999996, 3)}

CostCases ==
    {CostString(str) : str \in CostStrings \cup LongCostStrings}
        \cup {CostNumber(x) : x \in CostNumbers}
        \cup {CostOther(type) : type \in {"undefined", "null", "object", "boolean"}}

\* parseCost(usageBasedCosts) on the drawn cost.
ParseCost ==
    /\ fnPc = "ready"
    /\ fnRes' = parseCost(fnArg)
    /\ fnPc' = "done"
    /\ UNCHANGED <<fnArg, userIdOf, serviceVars, extensionVars>>

SpecCost == InitFunction(CostCases) /\ [][ParseCost]_vars

-----------------------------------------------------------------------------
(* Properties of parseCost *)

\* str without its '$' and ',' characters.
RECURSIVE WithoutSigns(_)
WithoutSigns(str) ==
    IF str = <<>> THEN <<>>
    ELSE IF Head(str) \in {"$", ","} THEN WithoutSigns(Tail(str))
    ELSE <<Head(str)>> \o WithoutSigns(Tail(str))

\* The number a string cost stands for: what is left of it parsed as a number,
\* 0 when that is not a number.
StringCostValue(str) ==
    LET parsed == parseFloat(WithoutSigns(str)) IN IF parsed = NaN THEN Whole(0) ELSE parsed

\* text is '$' followed by x to two decimals: a number with exactly two
\* decimals that lies within half a cent of x.
IsDollarsToTwoDecimals(text, x) ==
    LET shown == parseFloat(Tail(text))
        cents == shown.n * Pow10(2 - shown.s)
        diff  == 200 * x.n - 2 * cents * Pow10(x.s)
    IN  /\ Len(text) >= 5
        /\ text[1] = "$"
        /\ text[Len(text) - 2] = "."
        /\ text[Len(text) - 1] \in Digits /\ text[Len(text)] \in Digits
        /\ shown # NaN /\ shown.s \in 0..2
        /\ diff <= Pow10(x.s) /\ -diff <= Pow10(x.s)

DollarZero == <<"$", "0", ".", "0", "0">>

\* The documented examples and some more, by hand.
CostExamples ==
    /\ fnArg = CostString(<<"$", "1", ",", "2", "3", "4", ".", "5", "0">>)
            => fnRes.numericValue = Decimal(12345, 1)
    /\ fnArg = CostString(<<"$", "1", ",", "5">>) => fnRes.numericValue = Whole(15)
    /\ fnArg = CostString(<<"1", ".", "5", "a">>) => fnRes.numericValue = Decimal(15, 1)
    /\ fnArg = CostString(<<"-", ".", "5">>) => fnRes.numericValue = Decimal(-5, 1)
    /\ fnArg = CostString(<<"a", "1">>) => fnRes.numericValue = Whole(0)
    /\ fnArg = CostString(<<"f", "r", "e", "e">>) => fnRes.numericValue = Whole(0)
    /\ fnArg = CostNumber(Whole(42))
            => fnRes = [numericValue |-> Whole(42), displayValue |-> <<"$", "4", "2", ".", "0", "0">>]
    /\ fnArg = CostNumber(Decimal(126, 3))
            => fnRes.displayValue = <<"$", "0", ".", "1", "3">>

\* C20, as stated: parseCost always gives a number; for a string cost the value
\* of the string without '$' and ',' (0 if that is no number) and the string
\* itself as display; for a numeric cost the number and '$' with the number to
\* two decimals; for any other cost 0 and '$0.00'.
C20_EveryStringIsItsOwnDisplay ==
    fnPc = "done"
        => /\ fnRes.numericValue # NaN
           /\ CostExamples
           /\ CASE fnArg.t = "string" ->
                    /\ fnRes.numericValue = StringCostValue(fnArg.s)
                    /\ fnRes.displayValue = fnArg.s
                [] fnArg.t = "number" ->
                    /\ fnRes.numericValue = fnArg.v
                    /\ IsDollarsToTwoDecimals(fnRes.displayValue, fnArg.v)
                [] OTHER ->
                    /\ fnRes.numericValue = Whole(0)
                    /\ fnRes.displayValue = DollarZero

\* C20, amended: the same, except that an empty string cost counts as absent:
\* it gives 0 and '$0.00', not the empty string as display.
C20_NonEmptyStringIsItsOwnDisplay ==
    fnPc = "done"
        => /\ fnRes.numericValue # NaN
           /\ CostExamples
           /\ CASE fnArg.t = "string" /\ fnArg.s # <<>> ->
                    /\ fnRes.numericValue = StringCostValue(fnArg.s)
                    /\ fnRes.displayValue = fnArg.s
                [] fnArg.t = "number" ->
                    /\ fnRes.numericValue = fnArg.v
                    /\ IsDollarsToTwoDecimals(fnRes.displayValue, fnArg.v)
                [] OTHER ->
                    /\ fnRes.numericValue = Whole(0)
                    /\ fnRes.displayValue = DollarZero

\* parseCost("$1,234.50") gave 1234.5 and the string itself.
C20_Witness ==
    /\ fnPc = "done"
    /\ fnArg = CostString(<<"$", "1", ",", "2", "3", "4", ".", "5", "0">>)
    /\ fnRes.numericValue = Decimal(12345, 1)
    /\ fnRes.displayValue = <<"$", "1", ",", "2", "3", "4", ".", "5", "0">>

-----------------------------------------------------------------------------
(* initialize(autoDetect), lookup by lookup: every local source and every   *)
(* way it can fail                                                           *)

\* What a call gives when an exception leaves it.
Thrown == <<"<thrown>">>

\* The credentials the local sources hold here: one an account id comes out
\* of, and one without.
LocateTokens == {TokCookie, TokJunk}

Blank(c) == c \in {" ", "\t", "\n", "\r"}

\* String.prototype.trim
Trim(str) ==
    LET kept == {i \in 1..Len(str) : ~Blank(str[i])}
    IN  IF kept = {} THEN <<>>
        ELSE SubSeq(str, CHOOSE i \in kept : \A j \in kept : i <= j,
                         CHOOSE i \in kept : \A j \in kept : j <= i)

\* How reading the database with sql.js can go: the engine fails to load, the
\* file cannot be read, it is no database, the query fails, the key has no row,
\* its value is NULL, or the row holds a string (possibly the empty one).
SqlJsOutcomes ==
    {[kind |-> k, value |-> NullStr] :
        k \in {"initSqlJs rejects", "readFileSync throws", "not a database",
               "query throws", "no rows", "NULL value"}}
    \cup {[kind |-> "row", value |-> t] : t \in LocateTokens \cup {<<>>}}

\* readTokenUsingSqlJs: the value of the row; null when there is no row and
\* when anything throws (token.length on a NULL value does), lines 802-805.
readTokenUsingSqlJs(o) == IF o.kind = "row" THEN o.value ELSE NullStr

\* How the sqlite3 command can go: it cannot be run or exits with an error, it
\* is killed after 5 seconds, or it prints its answer and a line end.
CommandOutcomes ==
    {[kind |-> k, output |-> <<>>] : k \in {"error", "timeout"}}
    \cup {[kind |-> "exit 0", output |-> t \o <<"\n">>] : t \in LocateTokens \cup {<<>>}}

\* Faulty variant: a failure of the command is not caught.
readTokenUsingCommandUncaught(o) ==
    IF o.kind # "exit 0" THEN Thrown
    ELSE IF Trim(o.output) # <<>> THEN Trim(o.output) ELSE NullStr

\* readTokenUsingCommand: the trimmed output when it is not empty; execSync
\* throws on an error and on the timeout, and the catch gives null.
readTokenUsingCommand(o) ==
    IF o.kind = "exit 0" /\ Trim(o.output) # <<>> THEN Trim(o.output) ELSE NullStr

\* How a config file can go: it does not exist, it cannot be read, it parses as
\* JSON and the key search finds a token or none, it is no JSON and the cookie
\* pattern matches or not.
ConfigOutcomes ==
    {[kind |-> k, found |-> NullStr] : k \in {"missing", "unreadable"}}
    \cup {[kind |-> "json", found |-> t] : t \in LocateTokens \cup {NullStr}}
    \cup {[kind |-> "not json", found |-> t] : t \in {TokCookie, NullStr}}

\* Lines 714-735 for one file: what findTokenInObject or the pattern found.
ReadConfigFile(o) == IF o.kind \in {"json", "not json"} THEN o.found ELSE NullStr

\* One lookup: the source, how it went, and what it gave.
Attempt(strategy, outcome, found) ==
    [strategy |-> strategy, outcome |-> outcome, found |-> found]

RECURSIVE ScanConfigFiles(_, _)
\* Lines 713-738: the files are read in order, from the i-th on, until one
\* gives a token.  A run is the lookups made and the token found.
ScanConfigFiles(i, attempts) ==
    IF i > Len(ConfigFiles) THEN {[attempts |-> attempts, found |-> NullStr]}
    ELSE UNION {LET token == ReadConfigFile(o)
                    made  == Append(attempts, Attempt(ConfigFiles[i], o.kind, token))
                IN  IF TruthyStr(token) THEN {[attempts |-> made, found |-> token]}
                    ELSE ScanConfigFiles(i + 1, made) :
                o \in ConfigOutcomes}

\* Lines 759-771: sql.js, and the sqlite3 command when sql.js gave nothing.
SqliteRuns(attempts) ==
    UNION {LET t1 == readTokenUsingSqlJs(o1)
               a1 == Append(attempts, Attempt("sqljs", o1.kind, t1))
           IN  IF TruthyStr(t1) THEN {[attempts |-> a1, found |-> t1]}
               ELSE {[attempts |-> Append(a1, Attempt("cli", o2.kind, readTokenUsingCommand(o2))),
                      found |-> readTokenUsingCommand(o2)] : o2 \in CommandOutcomes} :
           o1 \in SqlJsOutcomes}

\* Faulty variant: the config files are read whatever the database gave, and
\* what they give is preferred.
AfterSqliteConfigFirst(run) ==
    IF run.found = Thrown THEN {run}
    ELSE {IF TruthyStr(r.found) THEN r ELSE [r EXCEPT !.found = run.found] :
            r \in ScanConfigFiles(1, run.attempts)}

\* Lines 705-711: the database's token when there is one, else the config
\* files.  An exception on the way leaves autoDetectToken as it is.
AfterSqlite(run) ==
    IF run.found = Thrown THEN {run}
    ELSE IF TruthyStr(run.found) THEN {run}
    ELSE ScanConfigFiles(1, run.attempts)

\* Faulty variant: the setting is not looked at.
AutoDetectEnabledAlways(autoDetect) == TRUE

\* Line 624.
AutoDetectEnabled(autoDetect) == autoDetect

\* The locals of an initialize call: the argument, the pending secure-cache
\* write's outcome, and the lookups made so far.
LocateCall ==
    [op |-> "initialize", pc |-> "idle", autoDetect |-> FALSE, io |-> "none",
     attempts |-> <<>>, result |-> "none"]

\* Lines 627-650: what initialize does with what autoDetectToken gave.
LocateFound(p, c, tok0, uid0, run) ==
    LET c1 == [c EXCEPT !.attempts = run.attempts]
    IN  IF run.found # Thrown /\ TruthyStr(run.found)
        THEN /\ sessionToken' = run.found
             /\ userId' = userIdOf[run.found]
             /\ IF TruthyStr(userIdOf[run.found])
                THEN \E io \in {"ok", "fail"} :
                        /\ secret' = SecretsStore(io, run.found)
                        /\ Step(p, [c1 EXCEPT !.pc = "init_store", !.io = io])
                ELSE /\ secret' = secret
                     /\ Step(p, Return(c1, "false"))
        ELSE /\ sessionToken' = tok0
             /\ userId' = uid0
             /\ secret' = secret
             /\ Step(p, Return(c1, "false"))

\* Lines 605-610: the call, up to  await secrets.get .
Locate(p) ==
    \E autoDetect \in BOOLEAN :
        /\ Enter(p, [LocateCall EXCEPT !.pc = "init_get", !.autoDetect = autoDetect])
        /\ UNCHANGED <<sessionToken, userId, detectedBillingModel, secret, lastDetect>>

\* Lines 610-646 resumed: secrets.get rejected (the catch returns false), or it
\* gave the slot's value; then the database file is looked for, and the call
\* goes on to  await initSqlJs()  or through the config files.
LocateGot(p) ==
    LET c      == call[p]
        stored == secret
        a0     == <<Attempt("cache", IF TruthyStr(stored) THEN "value" ELSE "empty", stored)>>
        tok0   == IF TruthyStr(stored) THEN stored ELSE sessionToken
        uid0   == IF TruthyStr(stored) THEN userIdOf[stored] ELSE userId
    IN  /\ c.pc = "init_get"
        /\ UNCHANGED <<detectedBillingModel, lastDetect>>
        /\ \/ /\ Step(p, Return([c EXCEPT !.attempts =
                                    <<Attempt("cache", "read error", Thrown)>>], "false"))
              /\ UNCHANGED <<sessionToken, userId, secret>>
           \/ IF StoredTokenUsable(stored)
              THEN /\ sessionToken' = stored
                   /\ userId' = userIdOf[stored]
                   /\ secret' = secret
                   /\ Step(p, Return([c EXCEPT !.attempts = a0], "true"))
              ELSE IF ~AutoDetectEnabled(c.autoDetect)
              THEN /\ sessionToken' = tok0
                   /\ userId' = uid0
                   /\ secret' = secret
                   /\ Step(p, Return([c EXCEPT !.attempts = a0], "false"))
              ELSE \/ /\ sessionToken' = tok0
                      /\ userId' = uid0
                      /\ secret' = secret
                      /\ Step(p, [c EXCEPT !.pc = "init_sqljs",
                                           !.attempts = Append(a0, Attempt("database", "exists",
                                                                           NullStr))])
                   \/ \E run \in ScanConfigFiles(1, Append(a0, Attempt("database", "missing",
                                                                       NullStr))) :
                            LocateFound(p, c, tok0, uid0, run)

\* Faulty variant: the config files are left out after the database.
LocateSqlJsOnly(p) ==
    LET c == call[p]
    IN  /\ c.pc = "init_sqljs"
        /\ UNCHANGED <<detectedBillingModel, lastDetect>>
        /\ \E r \in SqliteRuns(c.attempts) :
                LocateFound(p, c, sessionToken, userId, r)

\* readTokenUsingSqlJs resumed after  await initSqlJs() , then the sqlite3
\* command and the config files as far as needed, then lines 627-650.
LocateSqlJs(p) ==
    LET c == call[p]
    IN  /\ c.pc = "init_sqljs"
        /\ UNCHANGED <<detectedBillingModel, lastDetect>>
        /\ \E r \in SqliteRuns(c.attempts) :
            \E run \in AfterSqlite(r) :
                LocateFound(p, c, sessionToken, userId, run)

\* Lines 633-634 resumed after  await secrets.store ; a rejection lands in the catch.
LocateStored(p) ==
    LET c == call[p]
    IN  /\ c.pc = "init_store"
        /\ Step(p, Return(c, IF c.io = "ok" THEN "true" ELSE "false"))
        /\ UNCHANGED <<sessionToken, userId, detectedBillingModel, secret, lastDetect>>

\* The service as constructed; the secure cache slot holds what an earlier
\* session left in it.
InitLocate ==
    /\ ExtensionNotStarted
    /\ sessionToken = NullStr
    /\ userId = NullStr
    /\ detectedBillingModel = NoModel
    /\ userIdOf = UserIds
    /\ secret \in LocateTokens \cup {NullStr}
    /\ call = [p \in Procs |-> IdleCall]
    /\ lastDetect = NoDetect
    /\ fnArg = NullStr
    /\ fnRes = NullStr
    /\ fnPc = "unused"

NextLocate ==
    \E p \in Procs :
        \/ Locate(p) /\ UNCHANGED <<fnVars, extensionVars>>
        \/ LocateGot(p) /\ UNCHANGED <<fnVars, extensionVars>>
        \/ LocateSqlJs(p) /\ UNCHANGED <<fnVars, extensionVars>>
        \/ LocateStored(p) /\ UNCHANGED <<fnVars, extensionVars>>

SpecLocate == InitLocate /\ [][NextLocate]_vars

-----------------------------------------------------------------------------
(* Properties of the lookups of initialize *)

\* A completed initialize call of the lookup-by-lookup specification.
LocateDone(c) == c.op = "initialize" /\ c.pc = "done" /\ c.attempts # <<>>

\* The lookup gave a credential an account id comes out of.
GaveUsable(a) ==
    /\ a.found # Thrown
    /\ TruthyStr(a.found)
    /\ TruthyStr(userIdOf[a.found])

\* The lookup failed on the local machine: no database file or no config file,
\* an sql.js error, an error or the timeout of the sqlite3 command, a file that
\* cannot be read, a file that is no JSON and holds no cookie either.
LocalFailure(a) ==
    \/ a.strategy = "database" /\ a.outcome = "missing"
    \/ a.strategy = "sqljs" /\ a.outcome \in {"initSqlJs rejects", "readFileSync throws",
                                              "not a database", "query throws", "NULL value"}
    \/ a.strategy = "cli" /\ a.outcome \in {"error", "timeout"}
    \/ a.strategy \in {"cfg1", "cfg2", "cfg3"} /\ a.outcome \in {"missing", "unreadable"}
    \/ a.strategy \in {"cfg1", "cfg2", "cfg3"} /\ a.outcome = "not json" /\ a.found = NullStr

\* The secure cache could not be read.
CacheReadError(a) == a.strategy = "cache" /\ a.outcome = "read error"

\* The strategy that is the fallback of the lookup a, "none" when it is the
\* last: without the database file both database strategies are over.
NextStrategy(a, autoDetect) ==
    CASE a.strategy = "cache"    -> IF autoDetect THEN "database" ELSE "none"
      [] a.strategy = "database" -> "cfg1"
      [] a.strategy = "sqljs"    -> "cli"
      [] a.strategy = "cli"      -> "cfg1"
      [] a.strategy = "cfg1"     -> "cfg2"
      [] a.strategy = "cfg2"     -> "cfg3"
      [] a.strategy = "cfg3"     -> "none"

\* The fallback of the i-th lookup of the call was tried right after it.
FallbackTried(c, i) ==
    \/ NextStrategy(c.attempts[i], c.autoDetect) = "none"
    \/ /\ i < Len(c.attempts)
       /\ c.attempts[i + 1].strategy = NextStrategy(c.attempts[i], c.autoDetect)

\* C21, as stated: every local lookup failure of initialize, a secure-cache
\* read error included, ends only that lookup: the next fallback strategy is
\* still tried; initialize never throws, and it returns false when no strategy
\* gave a usable credential.
C21_EveryFailureAdvances ==
    \A p \in Procs :
        LET c == call[p]
        IN  LocateDone(c) =>
                /\ c.result \in {"true", "false"}
                /\ \A i \in 1..Len(c.attempts) :
                        (LocalFailure(c.attempts[i]) \/ CacheReadError(c.attempts[i]))
                            => FallbackTried(c, i)
                /\ (\A i \in 1..Len(c.attempts) : ~GaveUsable(c.attempts[i]))
                        => c.result = "false"

\* C21, amended: the same for every failure but the secure-cache read error;
\* that one is swallowed too, but it ends the whole search: initialize returns
\* false and no other strategy is tried.
C21_EveryFailureButCacheReadAdvances ==
    \A p \in Procs :
        LET c == call[p]
        IN  LocateDone(c) =>
                /\ c.result \in {"true", "false"}
                /\ \A i \in 1..Len(c.attempts) :
                        LocalFailure(c.attempts[i]) => FallbackTried(c, i)
                /\ CacheReadError(c.attempts[1])
                        => Len(c.attempts) = 1 /\ c.result = "false"
                /\ (\A i \in 1..Len(c.attempts) : ~GaveUsable(c.attempts[i]))
                        => c.result = "false"

\* sql.js failed to load, the sqlite3 command timed out, the first config file
\* was no JSON, and the second one gave the credential.
C21_Witness ==
    \E p \in Procs :
        LET c == call[p]
        IN  /\ LocateDone(c)
            /\ c.result = "true"
            /\ Len(c.attempts) = 6
            /\ c.attempts[3].outcome = "initSqlJs rejects"
            /\ c.attempts[4].outcome = "timeout"
            /\ c.attempts[5].outcome = "not json"
            /\ c.attempts[5].found = NullStr
            /\ GaveUsable(c.attempts[6])

\* C22: the strategies are tried in the order secure cache, sql.js, sqlite3
\* command, config files as listed; a strategy is tried only if every earlier
\* one failed to give a usable credential, and the search stops at the first
\* one that gives one.
StrategyRank(strategy) ==
    CASE strategy = "cache"    -> 1
      [] strategy = "database" -> 2
      [] strategy = "sqljs"    -> 3
      [] strategy = "cli"      -> 4
      [] strategy = "cfg1"     -> 5
      [] strategy = "cfg2"     -> 6
      [] strategy = "cfg3"     -> 7

C22_StrategiesInOrderUntilUsable ==
    \A p \in Procs :
        LET c == call[p]
        IN  c.op = "initialize" =>
                /\ \A i, j \in 1..Len(c.attempts) :
                        i < j => /\ StrategyRank(c.attempts[i].strategy)
                                        < StrategyRank(c.attempts[j].strategy)
                                 /\ ~GaveUsable(c.attempts[i])
                /\ (c.attempts # <<>>) => c.attempts[1].strategy = "cache"
                /\ (c.pc = "done" /\ c.result = "true")
                        => GaveUsable(c.attempts[Len(c.attempts)])

\* The secure cache held a credential without an account id, sql.js found no
\* row, the sqlite3 command gave a usable credential, and no config file was read.
C22_Witness ==
    \E p \in Procs :
        LET c == call[p]
        IN  /\ LocateDone(c)
            /\ c.result = "true"
            /\ Len(c.attempts) = 4
            /\ c.attempts[1].outcome = "value"
            /\ c.attempts[3].outcome = "no rows"
            /\ c.attempts[4].strategy = "cli"
            /\ GaveUsable(c.attempts[4])

\* C23: with autoDetect false initialize neither looks for nor opens the
\* database file and never runs the sqlite3 command, whatever the secure cache
\* holds.
C23_NoDatabaseWithoutAutoDetect ==
    \A p \in Procs :
        LET c == call[p]
        IN  (c.op = "initialize" /\ ~c.autoDetect) =>
                \A i \in 1..Len(c.attempts) :
                    c.attempts[i].strategy \notin {"database", "sqljs", "cli"}

\* autoDetect was false, the secure cache held a credential without an account
\* id, and initialize returned false after that one lookup.
C23_Witness ==
    \E p \in Procs :
        LET c == call[p]
        IN  /\ LocateDone(c)
            /\ ~c.autoDetect
            /\ c.attempts = <<Attempt("cache", "value", TokJunk)>>
            /\ sessionToken = TokJunk
            /\ c.result = "false"

\* A config file was read in the call.
ScannedConfig(c) ==
    \E i \in 1..Len(c.attempts) : c.attempts[i].strategy \in {"cfg1", "cfg2", "cfg3"}

\* Neither the secure cache nor the database, through sql.js or the sqlite3
\* command, gave a credential in the call.
StillMissing(c) ==
    \A i \in 1..Len(c.attempts) :
        c.attempts[i].strategy \in {"cache", "sqljs", "cli"}
            => ~(c.attempts[i].found # Thrown /\ TruthyStr(c.attempts[i].found))

\* C32, as stated: whenever the secure cache and the database have given no
\* credential, the config files are scanned, also with autoDetect false.
C32_ConfigScannedWheneverMissing ==
    \A p \in Procs :
        LET c == call[p]
        IN  (LocateDone(c) /\ StillMissing(c)) => ScannedConfig(c)

\* C32, amended: whenever autoDetect is true, the secure cache was read, and
\* neither it nor the database has given a credential, the config files are
\* scanned; with autoDetect false, and after a secure-cache read error, no
\* config file is read.
C32_ConfigScannedWhenMissingAndEnabled ==
    \A p \in Procs :
        LET c == call[p]
        IN  LocateDone(c) =>
                /\ (StillMissing(c) /\ c.autoDetect /\ ~CacheReadError(c.attempts[1]))
                        => ScannedConfig(c)
                /\ (~c.autoDetect \/ CacheReadError(c.attempts[1])) => ~ScannedConfig(c)

\* autoDetect was true, the secure cache was empty, sql.js found no row and the
\* sqlite3 command printed nothing; the three config files were read, in vain.
C32_Witness ==
    \E p \in Procs :
        LET c == call[p]
        IN  /\ LocateDone(c)
            /\ c.autoDetect
            /\ StillMissing(c)
            /\ c.attempts[1].outcome = "empty"
            /\ Len(c.attempts) = 7
            /\ c.attempts[3].outcome = "no rows"
            /\ c.attempts[4].outcome = "exit 0"
            /\ c.attempts[7].strategy = "cfg3"
            /\ c.result = "false"

-----------------------------------------------------------------------------
(* makeApiRequest: one HTTPS exchange and the promise it settles *)

\* The longest response body of the exhaustive enumeration.
MaxBodyLen == 3

BodyChars == {"{", "}", "n", "0", "\"", "<"}

\* Response bodies: every text over BodyChars up to MaxBodyLen, and a JSON
\* object, null and true.
Bodies ==
    UNION {[1..n -> BodyChars] : n \in 0..MaxBodyLen}
    \cup {<<"{", "\"", "a", "\"", ":", "\"", "b", "\"", "}">>,
          <<"n", "u", "l", "l">>,
          <<"t", "r", "u", "e">>}

Statuses == {200, 401, 403, 404, 500}

\* Lines 1111-1124, the 'end' handler: what the promise is resolved with for a
\* response of this status and body.
ResponseResult(status, data) ==
    IF status = 200
    THEN LET parsed == JSONParse(data)
         IN  IF ~parsed.ok THEN makeApiRequest("parse", parsed.v)
             ELSE IF Truthy(parsed.v) THEN makeApiRequest("ok", parsed.v)
             ELSE makeApiRequest("empty", parsed.v)
    ELSE IF status \in {401, 403} THEN makeApiRequest("auth", JsNull)
    ELSE makeApiRequest("status", JsNull)

\* The locals of a makeApiRequest call:
\*   written    how many requests have been sent
\*   events     the events delivered to the handlers, in order
\*   destroyed  req.destroy() was called
\*   settled    the promise is resolved, with result
RequestCall ==
    [op |-> "makeApiRequest", pc |-> "idle", written |-> 0, events |-> <<>>,
     destroyed |-> FALSE, settled |-> FALSE, result |-> NoResponse]

\* Faulty variant: a later call of resolve replaces the value.
ResolveLastWins(c, value) == [c EXCEPT !.settled = TRUE, !.result = value]

\* resolve(value) of the promise of line 1067: only the first call settles it.
Resolve(c, value) ==
    IF c.settled THEN c ELSE [c EXCEPT !.settled = TRUE, !.result = value]

RequestEvent(kind, status, data) == [kind |-> kind, status |-> status, data |-> data]

\* Lines 1066-1140: the request is built, the handlers are registered, the
\* request is sent.
MakeApiRequest(p) ==
    /\ HasCredentials
    /\ Enter(p, [RequestCall EXCEPT !.pc = "pending", !.written = 1])
    /\ UNCHANGED <<sessionToken, userId, detectedBillingModel, secret, lastDetect>>

\* Lines 1111-1124: the response has ended.
RequestResponse(p) ==
    LET c == call[p]
    IN  /\ c.pc = "pending"
        /\ UNCHANGED <<sessionToken, userId, detectedBillingModel, secret, lastDetect>>
        /\ \E status \in Statuses, data \in Bodies :
                Step(p, [Resolve(c, ResponseResult(status, data)) EXCEPT
                            !.pc = "done",
                            !.events = Append(@, RequestEvent("end", status, data))])

\* Lines 1127-1129: the 'error' event, for a transport failure or for the
\* socket that req.destroy() hung up.
RequestError(p) ==
    LET c == call[p]
    IN  /\ c.pc \in {"pending", "destroyed"}
        /\ UNCHANGED <<sessionToken, userId, detectedBillingModel, secret, lastDetect>>
        /\ Step(p, [Resolve(c, makeApiRequest("network", JsNull)) EXCEPT
                        !.pc = "done",
                        !.events = Append(@, RequestEvent("error", 0, <<>>))])

\* Lines 1131-1134: nothing came for 10 seconds; the request is destroyed.
RequestTimeout(p) ==
    LET c == call[p]
    IN  /\ c.pc = "pending"
        /\ UNCHANGED <<sessionToken, userId, detectedBillingModel, secret, lastDetect>>
        /\ Step(p, [Resolve(c, makeApiRequest("timeout", JsNull)) EXCEPT
                        !.pc = "destroyed",
                        !.destroyed = TRUE,
                        !.events = Append(@, RequestEvent("timeout", 0, <<>>))])

\* The service with the credential a setSessionToken call installed.
InitRequest ==
    /\ ExtensionNotStarted
    /\ sessionToken = TokCookie
    /\ userIdOf = UserIds
    /\ userId = userIdOf[sessionToken]
    /\ secret = sessionToken
    /\ detectedBillingModel = NoModel
    /\ lastDetect = NoDetect
    /\ call = [p \in Procs |-> IdleCall]
    /\ fnArg = NullStr
    /\ fnRes = NullStr
    /\ fnPc = "unused"

NextRequest ==
    \E p \in Procs :
        \/ MakeApiRequest(p) /\ UNCHANGED <<fnVars, extensionVars>>
        \/ RequestResponse(p) /\ UNCHANGED <<fnVars, extensionVars>>
        \/ RequestError(p) /\ UNCHANGED <<fnVars, extensionVars>>
        \/ RequestTimeout(p) /\ UNCHANGED <<fnVars, extensionVars>>

SpecRequest == InitRequest /\ [][NextRequest]_vars

\* The result the claim's table gives for the event e.
IsUniformResultOf(r, e) ==
    CASE e.kind = "end" /\ e.status = 200 /\ JSONParse(e.data).ok ->
            /\ r.success
            /\ r.error = ""
            /\ r.data = IF Truthy(JSONParse(e.data).v) THEN <<JSONParse(e.data).v>> ELSE <<>>
      [] e.kind = "end" /\ e.status \in {401, 403} ->
            /\ ~r.success
            /\ r.data = <<>>
            /\ r.error = "Authentication failed. Please check your session token."
      [] e.kind = "timeout" ->
            /\ ~r.success
            /\ r.data = <<>>
            /\ r.error = "Request timed out"
      [] OTHER ->
            /\ ~r.success
            /\ r.data = <<>>
            /\ r.error \notin {"", "Request timed out",
                               "Authentication failed. Please check your session token."}

\* C24: an HTTP call sends one request and settles once, with the result of
\* the first event delivered: success with the parsed data for status 200 and a
\* JSON body, the authentication failure for 401 and 403, a failure with a
\* message for any other status, an unparseable body and a transport error, and
\* 'Request timed out', with the request destroyed, when nothing came in time.
C24_OneUniformResultPerRequest ==
    \A p \in Procs :
        LET c == call[p]
        IN  (c.op = "makeApiRequest" /\ c.pc # "idle") =>
                /\ c.written = 1
                /\ c.settled <=> c.events # <<>>
                /\ c.events # <<>> => IsUniformResultOf(c.result, c.events[1])
                /\ c.destroyed <=> (c.events # <<>> /\ c.events[1].kind = "timeout")
                /\ c.pc = "done" => c.settled

\* The request timed out and was destroyed, the socket's error followed, and
\* the result is still the timeout.
C24_Witness ==
    \E p \in Procs :
        LET c == call[p]
        IN  /\ c.op = "makeApiRequest"
            /\ c.pc = "done"
            /\ Len(c.events) = 2
            /\ c.events[1].kind = "timeout"
            /\ c.events[2].kind = "error"
            /\ c.result = ApiFailure("Request timed out")

-----------------------------------------------------------------------------
(* Exceptions at the boundary of the service *)

\* C25: no call of the service ends by an exception: initialize,
\* setSessionToken, clearCredentials and detectBillingModel always complete
\* with a value, also when the secure cache rejects a read, a write or a delete.
C25_NoCallThrows ==
    \A p \in Procs :
        call[p].pc = "done" => call[p].result # "threw"

-----------------------------------------------------------------------------
(* fetchCombinedUsageData called twice, with two configured billing models  *)
(* and the same upstream                                                     *)

\* The most entries an events answer carries in the comparison.
ReplayEntries == 1

TeamRequests(asked) ==
    SelectSeq(asked, LAMBDA e : e \in {"/dashboard/teams", "/dashboard/get-team-spend"})

\* The service as a run found it or left it, and the call of the run.
Noted(c) ==
    [call |-> c, detectedBillingModel |-> detectedBillingModel, lastDetect |-> lastDetect]

\* The call c of the second run has observed what the call of the first run,
\* first, observed, as far as both got: the same day, the same answers to the
\* quota, team and events requests, and the same value of Math.round on the
\* same operands.
SameObservations(c, first) ==
    /\ (c.now # InvalidDate /\ first.now # InvalidDate) => c.now = first.now
    /\ (c.quota # "none" /\ first.quota # "none")
            => c.quota = first.quota /\ c.gpt4 = first.gpt4 /\ c.upstream = first.upstream
    /\ (TeamRequests(first.asked) # <<>> /\ TeamRequests(c.asked) # <<>>
            /\ c.pc # "teams_wait")
            => /\ TeamRequests(c.asked) = TeamRequests(first.asked)
               /\ c.usageResponse = first.usageResponse
    /\ (c.events # "none" /\ first.events # "none")
            => c.events = first.events /\ c.display = first.display
                    /\ c.entries = first.entries
    /\ (c.pc = "done" /\ c.result.data # <<>> /\ first.result.data # <<>>
            /\ c.result.data[1].requestBased # <<>>
            /\ first.result.data[1].requestBased # <<>>
            /\ c.result.data[1].requestBased[1].used
                    = first.result.data[1].requestBased[1].used
            /\ c.result.data[1].requestBased[1].limit
                    = first.result.data[1].requestBased[1].limit)
            => c.result.data[1].requestBased[1].percentage
                    = first.result.data[1].requestBased[1].percentage

\* The ways the events request ends in the comparison: how the exchange
\* ends, and the usageEventsDisplay member of the payload.
ReplayAnswers ==
    HttpOutcomes \X
        ({NoDisplay, BadDisplay}
            \cup {DisplayOf(entries) :
                    entries \in UNION {[1..n -> EventSamples] : n \in 0..ReplayEntries}})

\* The ways it ends in the second run: as in the first run, when the first run
\* sent it.
ReplayedAnswers(first) ==
    IF first.events = "none" THEN ReplayAnswers
    ELSE {<<first.events, [kind |-> first.display, items |-> first.entries]>>}

\* The steps of a call after its first, the events request answered by one
\* of answers.
FetchStep(p, answers) ==
    \/ FetchProfileResponse(p)
    \/ FetchProfileError(p)
    \/ FetchUsageDataResponse(p)
    \/ FetchTeamSpendResponse(p)
    \/ \E answer \in answers :
            FetchUsageEventsAnswered(p, answer[1], [usageEventsDisplay |-> answer[2]])

\* The first run starts; the state it starts from is noted.
ReplayStart(p) ==
    /\ history = <<>>
    /\ FetchCombinedUsageData(p)
    /\ history' = <<Noted(IdleCall)>>

\* The first run is over: what it did is noted and the service is put back
\* into the state the first run started from, for the second run.
Rewind(p) ==
    /\ Len(history) = 1
    /\ call[p].pc = "done"
    /\ history' = Append(history, Noted(call[p]))
    /\ detectedBillingModel' = history[1].detectedBillingModel
    /\ lastDetect' = history[1].lastDetect
    /\ call' = [call EXCEPT ![p] = IdleCall]
    /\ UNCHANGED <<sessionToken, userId, secret>>

\* The second run starts, with the other configured billing model.
ReplayAgain(p) ==
    /\ Len(history) = 2
    /\ FetchCombinedUsageData(p)
    /\ call'[p].arg # history[2].call.arg
    /\ history' = Append(history, Noted(call'[p]))

\* The answers open to the events request of the run in flight.
ReplayOpen ==
    IF Len(history) = 1 THEN ReplayAnswers ELSE ReplayedAnswers(history[2].call)

\* The second run goes on with every request answered as in the first run; the
\* profile request is answered with the profile of the first run, or fails
\* as it failed then.
ReplaySecond(p) ==
    /\ SameObservations(call'[p], history[2].call)
    /\ call[p].pc = "profile_wait"
            => /\ lastDetect'.obtained = history[2].lastDetect.obtained
               /\ detectedBillingModel' = history[2].detectedBillingModel

\* The run in flight goes on by one step: the first run freely, the second
\* run as the first run went.
ReplayStep(p) ==
    /\ Len(history) \in {1, 3}
    /\ FetchStep(p, ReplayOpen)
    /\ Len(history) = 3 => ReplaySecond(p)
    /\ UNCHANGED history

ReplayFrame ==
    UNCHANGED <<fnVars, refreshTimer, cachedUsageData, cachedCombinedData,
                statusBarItem, configuration>>

NextReplay ==
    \E p \in Procs :
        \/ ReplayStart(p) /\ ReplayFrame
        \/ ReplayStep(p) /\ ReplayFrame
        \/ Rewind(p) /\ ReplayFrame
        \/ ReplayAgain(p) /\ ReplayFrame

SpecReplay == InitFetch /\ [][NextReplay]_vars

\* Both runs are over.
Replayed(p) == Len(history) = 3 /\ FetchDone(call[p])

\* C27: two fetchCombinedUsageData calls that start from the same state of the
\* service, differ only in the configured billing model and observe the same
\* upstream answers return the same result, also when the profile request of
\* the billing-model detection fails.
C27_ResultIgnoresConfiguredModel ==
    \A p \in Procs :
        Replayed(p) => call[p].result = history[2].call.result

\* Both runs are over, the profile request failed in both, the quota was not
\* exhausted and a usage record came back.
C27_Witness ==
    \E p \in Procs :
        /\ Replayed(p)
        /\ call[p].arg = "usage-based"
        /\ history[2].call.arg = "free"
        /\ ~lastDetect.obtained /\ lastDetect.sent
        /\ ~history[2].lastDetect.obtained /\ history[2].lastDetect.sent
        /\ call[p].result.success
        /\ call[p].result.data[1].requestBased # <<>>

-----------------------------------------------------------------------------
(* The extension: activation, refresh cycles, the token commands and the     *)
(* refresh timer, each handler running from one await to the next            *)

\* The handlers that can be in flight together.
RefreshFlows == {1, 2}

\* The most handlers that start after the activation in a run.
MaxCycles == 2

\* Handlers can be in flight together.
Overlapping == Cardinality(DOMAIN call) > 1

\* Values of cursorUsage.refreshInterval, in seconds.
Intervals == {30, 60}

Configurations ==
    [refreshInterval : Intervals, billingModel : {"pro"}, autoDetectToken : BOOLEAN]

\* What the local sources and the input box can give: nothing, a cookie, a
\* token without an account id.
LocalTokens == {NullStr, TokCookie, TokJunk}

\* The upstream of the extension's runs: a profile for 'pro', two quotas below
\* their limits, the day and, where no handlers overlap, a profile for
\* 'usage-based', a quota at its limit, and no events or one.
RefreshProfiles ==
    {CHOOSE info \in SampleProfiles : ClassifyBilling(info) = model :
        model \in IF Overlapping THEN {"pro"} ELSE {"pro", "usage-based"}}

RefreshHttp == {"ok", "network"}

RefreshQuotas ==
    {payload \in FetchQuotaResponses :
        /\ payload.gpt4 \in {<<ModelUsage(<<48>>, <<>>)>>, <<ModelUsage(<<29>>, <<200>>)>>}
                                \cup IF Overlapping THEN {}
                                     ELSE {<<ModelUsage(<<500>>, <<500>>)>>}
        /\ payload.startOfMonth = DateOf(2024, 1, 1)}

RefreshEvents ==
    {[usageEventsDisplay |-> NoDisplay],
     [usageEventsDisplay |-> DisplayOf(<<CHOOSE e \in EventSamples : e.model = "gpt-4">>)]}

RefreshNow == DateOf(2025, 11, 31)

\* The locals of a handler in flight:
\*   op        activate, refreshUsageData, promptForToken or clearToken
\*   seq       its place in the order in which the handlers started
\*   config    getConfiguration() as the handler read it
\*   cycle     a refreshUsageData invocation is running, its own or a nested one
\*   cconfig   getConfiguration() as that invocation read it (line 183)
\*   phase     which of the fetches of lines 201 and 205 is running
\*   autoDetect, io, stored   as for initialize
\*   billingModel, usageResponse   locals of fetchCombinedUsageData
\*   response  what fetchCombinedUsageData returned
\*   began     the caches when the invocation started, where no handlers overlap
\*   outcome   how the invocation ended
\*   sent      the session tokens the requests of the invocation went out under
IdleFlow ==
    [op |-> "idle", pc |-> "idle", seq |-> 0,
     config |-> DefaultConfiguration, cycle |-> FALSE, cconfig |-> DefaultConfiguration,
     phase |-> "none", autoDetect |-> FALSE, io |-> "none", stored |-> NullStr,
     billingModel |-> NoModel, usageResponse |-> NoResponse, response |-> NoResponse,
     began |-> <<>>, outcome |-> "none", sent |-> {}]

\* The process-wide variables as one record, for the handlers to work on.
World ==
    [sessionToken |-> sessionToken, userId |-> userId, secret |-> secret,
     detectedBillingModel |-> detectedBillingModel,
     refreshTimer |-> refreshTimer, cachedUsageData |-> cachedUsageData,
     cachedCombinedData |-> cachedCombinedData, statusBarItem |-> statusBarItem,
     configuration |-> configuration, started |-> history.started,
     detectedFor |-> history.detectedFor, live |-> history.live, armed |-> history.armed]

Caches(w) ==
    [sessionToken |-> w.sessionToken, userId |-> w.userId,
     detectedBillingModel |-> w.detectedBillingModel,
     cachedUsageData |-> w.cachedUsageData, cachedCombinedData |-> w.cachedCombinedData]

Authenticated(w) == w.sessionToken # NullStr /\ w.userId # NullStr

Credentialed(w) == TruthyStr(w.sessionToken) /\ TruthyStr(w.userId)

\* What a handler gets when it resumes: the outcome of a secure-cache
\* operation, how an HTTP exchange ended and its payload, whether the database
\* file exists, the token a local source gave, the outcome of fetchTeamSpend.
NoInput ==
    [io |-> "ok", http |-> "ok", payload |-> <<>>, db |-> FALSE, found |-> NullStr,
     team |-> "no team"]

\* clearInterval(refreshTimer) under  if (refreshTimer) : the timer refreshTimer
\* refers to stops, if it was still running.
clearRefreshTimer(w) ==
    [w EXCEPT !.live = IF w.refreshTimer # <<>> /\ w.armed THEN @ - 1 ELSE @,
              !.armed = FALSE]

\* Faulty variant: the timer that runs is left running.
startRefreshTimerLeaky(w, intervalSeconds) ==
    [w EXCEPT !.refreshTimer = <<intervalSeconds * 1000>>,
              !.live = @ + 1,
              !.armed = TRUE]

\* extension.ts 163-173: the timer, as the period in milliseconds it runs with.
startRefreshTimer(w, intervalSeconds) ==
    [clearRefreshTimer(w) EXCEPT !.refreshTimer = <<intervalSeconds * 1000>>,
                                 !.live = @ + 1,
                                 !.armed = TRUE]

\* statusBar.ts 54-58, 63-68, 73-79.
setLoading(w) == [w EXCEPT !.statusBarItem.text = <<"$(sync~spin) Cursor Usage">>]

setError(w) ==
    [w EXCEPT !.statusBarItem.text = <<"$(warning) Cursor Usage">>,
              !.statusBarItem.background = "statusBarItem.warningBackground"]

setNotAuthenticated(w) ==
    [w EXCEPT !.statusBarItem.text = <<"$(key) Cursor: Set Token">>,
              !.statusBarItem.command = "cursorUsage.setToken",
              !.statusBarItem.background = "none"]

\* statusBar.ts 98-150: the text names the cost of the day, or used/limit
\* (display mode 'both'); the wording of the cost is left out.
CombinedItem(data) ==
    [text |-> IF data.billingType = "usage-based" /\ data.usageBased # <<>>
              THEN <<"Cursor", data.usageBased[1].todayCost>>
              ELSE IF data.requestBased # <<>>
              THEN <<"Cursor", data.requestBased[1].used, "/", data.requestBased[1].limit>>
              ELSE <<"Cursor">>,
     command |-> "cursorUsage.showDetails",
     background |-> "none"]

updateCombinedUsage(w, data) ==
    [w EXCEPT !.cachedCombinedData = <<data>>, !.statusBarItem = CombinedItem(data)]

\* statusBar.ts 84-93, 249-316: the legacy display; icon and percentage are
\* left out of the text.  The background is prominent with the quota exhausted
\* or a percentage that rounds to 100 or more.
LegacyItem(data) ==
    [text |-> IF data.isPremiumExhausted /\ "usageBasedCostCents" \in DOMAIN data
              THEN <<"$(credit-card) On-Demand: $", data.usageBasedCostCents>>
              ELSE <<data.premiumRequestsUsed, "/", data.premiumRequestsLimit>>,
     command |-> "cursorUsage.showDetails",
     background |-> IF data.isPremiumExhausted
                        \/ /\ data.premiumRequestsLimit \notin {0, 999999}
                           /\ 200 * data.premiumRequestsUsed >= 199 * data.premiumRequestsLimit
                    THEN "statusBarItem.prominentBackground" ELSE "none"]

updateUsage(w, data) == [w EXCEPT !.statusBarItem = LegacyItem(data)]

\* A handler at locals c in the world w.
At(w, c) == [w |-> w, c |-> c]

\* Faulty variant: the cookie of the handler's first request is used again.
SendStale(s, pc) ==
    At(s.w, [s.c EXCEPT !.pc = pc,
                        !.sent = IF @ = {} THEN {s.w.sessionToken} ELSE @])

\* makeApiRequest lines 1066-1084: the request goes out with a cookie made of
\* the session token of the moment, and the handler awaits the answer at pc.
Send(s, pc) ==
    At(s.w, [s.c EXCEPT !.pc = pc, !.sent = @ \cup {s.w.sessionToken}])

\* The handler has returned; of its locals the properties need how it ended.
Finished(s) ==
    At(s.w, [IdleFlow EXCEPT !.op = s.c.op, !.pc = "done", !.seq = s.c.seq,
                             !.outcome = s.c.outcome, !.response = s.c.response])

\* refreshUsageData has returned to the handler that awaited it: activate's
\* initialize starts the timer with the interval it read at its start (line
\* 118), promptForToken with the interval of the moment (lines 248-249).
CycleEnd(s, outcome) ==
    LET c == [s.c EXCEPT !.cycle = FALSE, !.outcome = outcome]
    IN  CASE c.op = "activate" ->
                Finished(At(startRefreshTimer(s.w, c.config.refreshInterval), c))
          [] c.op = "promptForToken" ->
                Finished(At(startRefreshTimer(s.w, s.w.configuration.refreshInterval), c))
          [] OTHER -> Finished(At(s.w, c))

\* Faulty variant: a cycle that is not the newest started leaves the display
\* and the caches alone.
LegacyEndNewestOnly(s, legacyResponse) ==
    IF s.c.seq < s.w.started THEN CycleEnd(s, "success")
    ELSE LET w1 == IF legacyResponse.success /\ legacyResponse.data # <<>>
                   THEN [s.w EXCEPT !.cachedUsageData = <<legacyResponse.data[1]>>]
                   ELSE s.w
         IN  CycleEnd(At(updateCombinedUsage(w1, s.c.response.data[1]), s.c), "success")

\* extension.ts 206-217: the legacy fetch has returned.
LegacyEnd(s, legacyResponse) ==
    LET w1 == IF legacyResponse.success /\ legacyResponse.data # <<>>
              THEN [s.w EXCEPT !.cachedUsageData = <<legacyResponse.data[1]>>]
              ELSE s.w
    IN  CycleEnd(At(updateCombinedUsage(w1, s.c.response.data[1]), s.c), "success")

NotAuthenticatedUsage ==
    ApiFailure("Not authenticated. Please set your Cursor session token.")

\* extension.ts 205 and lines 938-947: the legacy fetchUsageData, refused
\* without credentials.
LegacyStart(s) ==
    IF ~Credentialed(s.w) THEN LegacyEnd(s, NotAuthenticatedUsage)
    ELSE Send(s, "legacy_wait")

\* Lines 948-960 for either fetch: the answer of GET /usage as fetchUsageData
\* sees it.
UsageResult(in, billingModel) ==
    fetchUsageDataResult(makeApiRequest(in.http, in.payload), billingModel)

\* Faulty variant: the team request goes out with or without a session token.
AsksTeamsAnyway(w, usageResponse) ==
    /\ usageResponse.success
    /\ usageResponse.data[1].isPremiumExhausted

\* await this.fetchTeamSpend()  makes requests only with a session token:
\* without one makeApiRequest throws at line 1073 and fetchTeamInfo returns null.
\* Lines 961-962, 983-986.
AsksTeams(w, usageResponse) ==
    /\ usageResponse.success
    /\ usageResponse.data[1].isPremiumExhausted
    /\ w.sessionToken # NullStr

TeamSpendOf(in) == IF in.team = "spend" THEN TeamSpend(1250, "team") ELSE NoTeamSpend

LegacyAnswered(s, in) ==
    LET usageResponse == UsageResult(in, s.c.cconfig.billingModel)
    IN  IF AsksTeams(s.w, usageResponse)
        THEN Send(At(s.w, [s.c EXCEPT !.usageResponse = usageResponse]), "legacy_teams_wait")
        ELSE LegacyEnd(s, usageResponse)

\* Lines 1004-1016: with a team in hand fetchTeamSpend asks for its spend;
\* without a session token by now makeApiRequest throws and the spend is null.
AsksSpend(w, in) == in.team = "team" /\ w.sessionToken # NullStr

LegacyTeamsAnswered(s, in) ==
    IF AsksSpend(s.w, in) THEN Send(s, "legacy_spend_wait")
    ELSE LegacyEnd(s, s.c.usageResponse)

LegacySpendAnswered(s, in) == LegacyEnd(s, WithTeamSpend(s.c.usageResponse, TeamSpendOf(in)))

\* Faulty variant: a failure empties the status bar's cached record.
CombinedEndForgets(s, response) ==
    IF response.success /\ response.data # <<>>
    THEN LegacyStart(At(s.w, [s.c EXCEPT !.response = response, !.phase = "legacy"]))
    ELSE CycleEnd(At(setError([s.w EXCEPT !.cachedCombinedData = <<>>]),
                     [s.c EXCEPT !.response = response]), "failure")

\* extension.ts 203-221: fetchCombinedUsageData has returned.
CombinedEnd(s, response) ==
    IF response.success /\ response.data # <<>>
    THEN LegacyStart(At(s.w, [s.c EXCEPT !.response = response, !.phase = "legacy"]))
    ELSE CycleEnd(At(setError(s.w), [s.c EXCEPT !.response = response]), "failure")

\* Lines 1374-1434 once fetchUsageEvents has returned.
AfterEvents(s, eventsResponse) ==
    CombinedEnd(s, CHOOSE result \in ResultsAfterEvents(s.c.billingModel, RefreshNow,
                                                        s.c.usageResponse, eventsResponse) : TRUE)

\* Lines 1368-1372 and 1230-1236, 1412-1434 once fetchUsageData has returned;
\* fetchUsageEvents is refused without credentials.
AfterUsage(s, usageResponse) ==
    LET got == At(s.w, [s.c EXCEPT !.usageResponse = usageResponse])
    IN  IF WantsUsageEvents(s.c.billingModel, usageResponse)
        THEN IF ~Credentialed(s.w) THEN AfterEvents(got, ApiFailure("Not authenticated"))
             ELSE Send(got, "events_wait")
        ELSE CombinedEnd(got, CHOOSE result \in RequestBasedResults(usageResponse) : TRUE)

\* Line 1366 and lines 938-947 with the billing model in hand.
UsageStart(s, billingModel) ==
    LET c == [s.c EXCEPT !.billingModel = billingModel]
    IN  IF ~Credentialed(s.w) THEN AfterUsage(At(s.w, c), NotAuthenticatedUsage)
        ELSE Send(At(s.w, c), "usage_wait")

UsageAnswered(s, in) ==
    LET usageResponse == UsageResult(in, s.c.billingModel)
    IN  IF AsksTeams(s.w, usageResponse)
        THEN Send(At(s.w, [s.c EXCEPT !.usageResponse = usageResponse]), "teams_wait")
        ELSE AfterUsage(s, usageResponse)

TeamsAnswered(s, in) ==
    IF AsksSpend(s.w, in) THEN Send(s, "spend_wait")
    ELSE AfterUsage(s, s.c.usageResponse)

SpendAnswered(s, in) == AfterUsage(s, WithTeamSpend(s.c.usageResponse, TeamSpendOf(in)))

EventsAnswered(s, in) ==
    AfterEvents(s, fetchUsageEventsResult(makeApiRequest(in.http, in.payload)))

\* Lines 1176-1217 resumed with the answer of GET /auth/stripe: the profile is
\* classified and cached, whatever has happened to the credentials meanwhile.
ProfileAnswered(s, in) ==
    LET response == makeApiRequest(in.http, in.payload)
    IN  IF response.success /\ response.data # <<>>
        THEN LET model == ClassifyBilling(response.data[1])
             IN  UsageStart(At([s.w EXCEPT !.detectedBillingModel = model,
                                           !.detectedFor = CHOOSE t \in s.c.sent : TRUE],
                               s.c), model)
        ELSE UsageStart(s, "free")

\* Lines 1347-1357 and 1169-1176: fetchCombinedUsageData up to its first await.
CombinedStart(s) ==
    LET c == [s.c EXCEPT !.phase = "combined"]
    IN  IF ~Credentialed(s.w) THEN CombinedEnd(At(s.w, c), ApiFailure("Not authenticated"))
        ELSE IF s.w.detectedBillingModel # NoModel
        THEN UsageStart(At(s.w, c), s.w.detectedBillingModel)
        ELSE Send(At(s.w, c), "profile_wait")

\* CursorApiService.initialize up to  await secrets.get  (lines 605-610).
InitStart(s, autoDetect, io) ==
    At(s.w, [s.c EXCEPT !.pc = "init_get", !.autoDetect = autoDetect, !.io = io,
                        !.stored = IF io = "ok" THEN s.w.secret ELSE NullStr])

\* extension.ts 178-201: refreshUsageData up to its first await.
CycleStart(s, io) ==
    LET c == [s.c EXCEPT !.cycle = TRUE, !.cconfig = s.w.configuration,
                         !.began = IF Overlapping THEN <<>> ELSE <<Caches(s.w)>>,
                         !.outcome = "none", !.sent = {}]
    IN  IF ~Authenticated(s.w)
        THEN InitStart(At(setLoading(s.w), c), c.cconfig.autoDetectToken, io)
        ELSE CombinedStart(At(s.w, c))

\* Faulty variant: a refresh whose initialization fails returns without a word
\* in the status bar.
InitEndSilent(s, ok, io) ==
    IF s.c.cycle
    THEN IF ~ok THEN CycleEnd(s, "failure")
         ELSE CombinedStart(At(startRefreshTimer(s.w, s.c.cconfig.refreshInterval), s.c))
    ELSE IF ~ok THEN Finished(At(setNotAuthenticated(s.w), s.c))
         ELSE CycleStart(s, io)

\* cursorApi.initialize has returned ok: extension.ts 191-198 inside a refresh,
\* 111-116 at activation.
InitEnd(s, ok, io) ==
    IF s.c.cycle
    THEN IF ~ok THEN CycleEnd(At(setNotAuthenticated(s.w), s.c), "failure")
         ELSE CombinedStart(At(startRefreshTimer(s.w, s.c.cconfig.refreshInterval), s.c))
    ELSE IF ~ok THEN Finished(At(setNotAuthenticated(s.w), s.c))
         ELSE CycleStart(s, io)

\* Lines 627-646: what initialize does with the token autoDetectToken found.
AutoDetected(s, found, io) ==
    LET uid == userIdOf[found]
    IN  IF ~TruthyStr(found) THEN InitEnd(s, FALSE, io)
        ELSE LET w == [s.w EXCEPT !.sessionToken = found, !.userId = uid]
             IN  IF TruthyStr(uid)
                 THEN At([w EXCEPT !.secret = IF io = "ok" THEN found ELSE @],
                         [s.c EXCEPT !.pc = "init_store", !.io = io])
                 ELSE InitEnd(At(w, s.c), FALSE, io)

\* Lines 611-646 resumed with the stored token.
InitGot(s, in) ==
    LET stored == s.c.stored
        w0 == IF TruthyStr(stored)
              THEN [s.w EXCEPT !.sessionToken = stored, !.userId = userIdOf[stored]]
              ELSE s.w
    IN  IF s.c.io = "fail" THEN InitEnd(s, FALSE, in.io)
        ELSE IF StoredTokenUsable(stored) THEN InitEnd(At(w0, s.c), TRUE, in.io)
        ELSE IF ~s.c.autoDetect THEN InitEnd(At(w0, s.c), FALSE, in.io)
        ELSE IF in.db THEN At(w0, [s.c EXCEPT !.pc = "init_sqljs"])
        ELSE AutoDetected(At(w0, s.c), in.found, in.io)

InitSqlJs(s, in) == AutoDetected(s, in.found, in.io)

InitStored(s, in) == InitEnd(s, s.c.io = "ok", in.io)

\* Faulty variant: the token is replaced and the account id is left as it was.
PromptEnteredKeepsUser(s, token, io) ==
    LET trimmed == Trim(token)
        uid     == userIdOf[trimmed]
    IN  IF ~TruthyStr(uid) THEN Finished(s)
        ELSE At([s.w EXCEPT !.sessionToken = trimmed,
                            !.secret = IF io = "ok" THEN trimmed ELSE @],
                [s.c EXCEPT !.pc = "set_store", !.io = io])

\* extension.ts 242-243 and lines 909-917: promptForToken resumed with the
\* input, through setSessionToken up to  await secrets.store .
PromptEntered(s, token, io) ==
    LET trimmed == Trim(token)
        uid     == userIdOf[trimmed]
    IN  IF ~TruthyStr(uid) THEN Finished(s)
        ELSE At([s.w EXCEPT !.sessionToken = trimmed, !.userId = uid,
                            !.secret = IF io = "ok" THEN trimmed ELSE @],
                [s.c EXCEPT !.pc = "set_store", !.io = io])

\* extension.ts 244-249: setSessionToken has returned true, or has thrown and
\* promptForToken ends with it.
PromptStored(s, in) == IF s.c.io = "fail" THEN Finished(s) ELSE CycleStart(s, in.io)

\* Faulty variant: the account id survives the logout.
ClearStartKeepsUser(s, io) ==
    At([clearRefreshTimer(s.w) EXCEPT !.refreshTimer = <<>>,
                   !.sessionToken = NullStr,
                   !.detectedBillingModel = NoModel,
                   !.secret = IF io = "ok" THEN NullStr ELSE @],
       [s.c EXCEPT !.pc = "clear_delete", !.io = io])

\* extension.ts 259-279 and lines 1146-1151: clearToken stops the timer and
\* clearCredentials runs up to  await secrets.delete .
ClearStart(s, io) ==
    At([clearRefreshTimer(s.w) EXCEPT !.refreshTimer = <<>>,
                   !.sessionToken = NullStr,
                   !.userId = NullStr,
                   !.detectedBillingModel = NoModel,
                   !.secret = IF io = "ok" THEN NullStr ELSE @],
       [s.c EXCEPT !.pc = "clear_delete", !.io = io])

\* extension.ts 280-295: the delete has ended, one way or the other.
ClearDeleted(s) ==
    Finished(At(setNotAuthenticated([s.w EXCEPT !.cachedUsageData = <<>>]), s.c))

\* What the properties need of the run so far:
\*   activated  activate has been called
\*   started    the handlers started after the activation
\*   last       the cycle that ended last, no handler having returned since
\*   clearing   a clearToken is running or has run, and no handler has been in
\*              initialize or setSessionToken since it started
\*   cleared    it has completed
\*   deleted    its secrets.delete succeeded
\*   detectedFor  the session token the profile request went out under whose
\*              answer was classified and cached last
\*   live       the interval timers that run
\*   armed      the timer refreshTimer refers to is one of them
\*   deactivated  deactivate has been called
NoHistory ==
    [activated |-> FALSE, started |-> 0, last |-> <<>>,
     clearing |-> FALSE, cleared |-> FALSE, deleted |-> FALSE, detectedFor |-> NullStr,
     live |-> 0, armed |-> FALSE, deactivated |-> FALSE]

InitPcs == {"init_get", "init_sqljs", "init_store", "set_store"}

Running(c) == c.pc \notin {"idle", "done"}

HistoryAfter(p, s, note) ==
    LET c0      == call[p]
        ended   == Running(c0) /\ c0.outcome = "none" /\ s.c.outcome # "none"
        touched == c0.pc \in InitPcs \/ s.c.pc \in InitPcs \/ note = "token"
    IN  [activated |-> TRUE,
         started   |-> IF s.c.seq > history.started THEN s.c.seq ELSE history.started,
         last      |-> IF ended
                       THEN <<[seq |-> s.c.seq, outcome |-> s.c.outcome,
                               response |-> s.c.response]>>
                       ELSE IF ~Running(s.c) THEN <<>> ELSE history.last,
         clearing  |-> IF note = "clear"
                       THEN \A q \in DOMAIN call : q # p => call[q].pc \notin InitPcs
                       ELSE IF touched THEN FALSE ELSE history.clearing,
         cleared   |-> IF note = "clear" \/ touched THEN FALSE
                       ELSE IF note = "cleared" THEN history.clearing
                       ELSE history.cleared,
         deleted   |-> IF note = "clear" THEN s.c.io = "ok" ELSE history.deleted,
         detectedFor |-> s.w.detectedFor,
         live |-> s.w.live, armed |-> s.w.armed, deactivated |-> history.deactivated]

\* The handler p has run from one await to the next and left the world s.w.
Commit(p, s, note) ==
    /\ sessionToken' = s.w.sessionToken
    /\ userId' = s.w.userId
    /\ secret' = s.w.secret
    /\ detectedBillingModel' = s.w.detectedBillingModel
    /\ lastDetect' = lastDetect
    /\ refreshTimer' = s.w.refreshTimer
    /\ cachedUsageData' = s.w.cachedUsageData
    /\ cachedCombinedData' = s.w.cachedCombinedData
    /\ statusBarItem' = s.w.statusBarItem
    /\ configuration' = configuration
    /\ history' = HistoryAfter(p, s, note)
    /\ call' = [call EXCEPT ![p] = IF Running(s.c) THEN s.c
                                   ELSE [s.c EXCEPT !.response = NoResponse]]
    /\ UNCHANGED fnVars

\* A handler can start, and p is the first flow that is free.  The commands
\* are gone once the extension is deactivated; a timer that runs ticks on.
CanStart(p) ==
    /\ history.activated
    /\ ~Running(call[p])
    /\ \A q \in DOMAIN call : q < p => Running(call[q])
    /\ history.started < MaxCycles

Fresh(op) ==
    [IdleFlow EXCEPT !.op = op, !.seq = history.started + 1, !.config = configuration]

\* extension.ts 21-109: activate and initialize, up to  await secrets.get .
Activate(p) ==
    /\ ~history.activated
    /\ \A q \in DOMAIN call : p <= q
    /\ \E io \in {"ok", "fail"} :
            Commit(p, InitStart(At(setLoading(World),
                                   [IdleFlow EXCEPT !.op = "activate",
                                                    !.config = configuration]),
                                configuration.autoDetectToken, io), "step")

\* extension.ts 170-172: a tick of the refresh timer.
TimerTick(p) ==
    /\ CanStart(p)
    /\ history.live > 0
    /\ \E io \in {"ok", "fail"} :
            Commit(p, CycleStart(At(World, Fresh("refreshUsageData")), io), "step")

\* extension.ts 44-46: the refresh command.
RefreshCommand(p) ==
    /\ CanStart(p)
    /\ ~history.deactivated
    /\ \E io \in {"ok", "fail"} :
            Commit(p, CycleStart(At(World, Fresh("refreshUsageData")), io), "step")

\* Faulty variant: setting a token empties the billing-model cache.
PromptForTokenForgets(p) ==
    /\ CanStart(p)
    /\ ~history.deactivated
    /\ \E token \in LocalTokens \ {NullStr}, io \in {"ok", "fail"} :
            Commit(p, PromptEntered(At([World EXCEPT !.detectedBillingModel = NoModel],
                                       Fresh("promptForToken")), token, io),
                   "token")

\* extension.ts 227-243: promptForToken with the input box answered.
PromptForToken(p) ==
    /\ CanStart(p)
    /\ ~history.deactivated
    /\ \E token \in LocalTokens \ {NullStr}, io \in {"ok", "fail"} :
            Commit(p, PromptEntered(At(World, Fresh("promptForToken")), token, io),
                   "token")

ClearToken(p) ==
    /\ CanStart(p)
    /\ ~history.deactivated
    /\ \E io \in {"ok", "fail"} :
            Commit(p, ClearStart(At(World, Fresh("clearToken")), io), "clear")

ClearTokenDeleted(p) ==
    /\ call[p].pc = "clear_delete"
    /\ Commit(p, ClearDeleted(At(World, call[p])), "cleared")

RefreshInitGot(p) ==
    /\ call[p].pc = "init_get"
    /\ \E db \in BOOLEAN, found \in LocalTokens, io \in {"ok", "fail"} :
            Commit(p, InitGot(At(World, call[p]),
                              [NoInput EXCEPT !.db = db, !.found = found, !.io = io]), "step")

RefreshInitSqlJs(p) ==
    /\ call[p].pc = "init_sqljs"
    /\ \E found \in LocalTokens, io \in {"ok", "fail"} :
            Commit(p, InitSqlJs(At(World, call[p]),
                                [NoInput EXCEPT !.found = found, !.io = io]), "step")

RefreshInitStored(p) ==
    /\ call[p].pc = "init_store"
    /\ \E io \in {"ok", "fail"} :
            Commit(p, InitStored(At(World, call[p]), [NoInput EXCEPT !.io = io]), "step")

PromptForTokenStored(p) ==
    /\ call[p].pc = "set_store"
    /\ \E io \in {"ok", "fail"} :
            Commit(p, PromptStored(At(World, call[p]), [NoInput EXCEPT !.io = io]), "step")

RefreshProfile(p) ==
    /\ call[p].pc = "profile_wait"
    /\ \E http \in RefreshHttp, payload \in RefreshProfiles :
            Commit(p, ProfileAnswered(At(World, call[p]),
                                      [NoInput EXCEPT !.http = http, !.payload = payload]),
                   "step")

RefreshUsage(p) ==
    /\ call[p].pc = "usage_wait"
    /\ \E http \in RefreshHttp, payload \in RefreshQuotas :
            Commit(p, UsageAnswered(At(World, call[p]),
                                    [NoInput EXCEPT !.http = http, !.payload = payload]),
                   "step")

RefreshTeams(p) ==
    /\ call[p].pc = "teams_wait"
    /\ \E team \in {"no team", "team"} :
            Commit(p, TeamsAnswered(At(World, call[p]), [NoInput EXCEPT !.team = team]), "step")

RefreshSpend(p) ==
    /\ call[p].pc = "spend_wait"
    /\ \E team \in {"no spend", "spend"} :
            Commit(p, SpendAnswered(At(World, call[p]), [NoInput EXCEPT !.team = team]), "step")

RefreshEventsAnswered(p) ==
    /\ call[p].pc = "events_wait"
    /\ \E http \in RefreshHttp, payload \in RefreshEvents :
            Commit(p, EventsAnswered(At(World, call[p]),
                                     [NoInput EXCEPT !.http = http, !.payload = payload]),
                   "step")

RefreshLegacy(p) ==
    /\ call[p].pc = "legacy_wait"
    /\ \E http \in RefreshHttp, payload \in RefreshQuotas :
            Commit(p, LegacyAnswered(At(World, call[p]),
                                     [NoInput EXCEPT !.http = http, !.payload = payload]),
                   "step")

RefreshLegacyTeams(p) ==
    /\ call[p].pc = "legacy_teams_wait"
    /\ \E team \in {"no team", "team"} :
            Commit(p, LegacyTeamsAnswered(At(World, call[p]), [NoInput EXCEPT !.team = team]),
                   "step")

RefreshLegacySpend(p) ==
    /\ call[p].pc = "legacy_spend_wait"
    /\ \E team \in {"no spend", "spend"} :
            Commit(p, LegacySpendAnswered(At(World, call[p]), [NoInput EXCEPT !.team = team]),
                   "step")

\* extension.ts 140-158: the settings have changed; the legacy display comes
\* back when there is legacy data, and the timer restarts.
OnConfigurationChanged ==
    /\ history.activated
    /\ ~history.deactivated
    /\ history.started < MaxCycles
    /\ \E config \in Configurations \ {configuration} :
            LET shown == IF cachedUsageData # <<>> THEN updateUsage(World, cachedUsageData[1])
                         ELSE World
                w     == startRefreshTimer(shown, config.refreshInterval)
            IN  /\ configuration' = config
                /\ statusBarItem' = w.statusBarItem
                /\ refreshTimer' = w.refreshTimer
                /\ history' = [history EXCEPT !.started = @ + 1, !.last = <<>>,
                                              !.live = w.live, !.armed = w.armed]
    /\ UNCHANGED <<serviceVars, fnVars, cachedUsageData, cachedCombinedData>>

\* extension.ts 589-593: deactivate stops the timer and leaves refreshTimer as
\* it is.  Handlers in flight go on.
Deactivate ==
    /\ history.activated
    /\ ~history.deactivated
    /\ LET w == clearRefreshTimer(World)
       IN  history' = [history EXCEPT !.deactivated = TRUE, !.last = <<>>,
                                      !.live = w.live, !.armed = w.armed]
    /\ UNCHANGED <<serviceVars, fnVars, refreshTimer, cachedUsageData, cachedCombinedData,
                   statusBarItem, configuration>>

\* The extension host has loaded the module; the secure cache holds what an
\* earlier session left.
ExtensionLoaded(flows, configurations) ==
    /\ sessionToken = NullStr
    /\ userIdOf = UserIds
    /\ userId = NullStr
    /\ secret \in LocalTokens
    /\ detectedBillingModel = NoModel
    /\ lastDetect = NoDetect
    /\ call = [p \in flows |-> IdleFlow]
    /\ fnArg = NullStr
    /\ fnRes = NullStr
    /\ fnPc = "unused"
    /\ refreshTimer = <<>>
    /\ cachedUsageData = <<>>
    /\ cachedCombinedData = <<>>
    /\ statusBarItem = LoadingItem
    /\ configuration \in configurations
    /\ history = NoHistory

\* One handler at a time, every handler, the settings changing.
InitSession == ExtensionLoaded({1}, Configurations)

NextSession ==
    \/ OnConfigurationChanged
    \/ \E p \in DOMAIN call :
        \/ Activate(p)
        \/ TimerTick(p)
        \/ RefreshCommand(p)
        \/ PromptForToken(p)
        \/ PromptForTokenStored(p)
        \/ ClearToken(p)
        \/ ClearTokenDeleted(p)
        \/ RefreshInitGot(p)
        \/ RefreshInitSqlJs(p)
        \/ RefreshInitStored(p)
        \/ RefreshProfile(p)
        \/ RefreshUsage(p)
        \/ RefreshTeams(p)
        \/ RefreshSpend(p)
        \/ RefreshEventsAnswered(p)
        \/ RefreshLegacy(p)
        \/ RefreshLegacyTeams(p)
        \/ RefreshLegacySpend(p)

SpecSession == InitSession /\ [][NextSession]_vars

\* Refresh cycles and clearToken overlapping, the settings fixed at an interval
\* of a minute.
InitRefresh ==
    ExtensionLoaded(RefreshFlows, {config \in Configurations : config.refreshInterval = 60})

NextRefresh ==
    \E p \in DOMAIN call :
        \/ Activate(p)
        \/ TimerTick(p)
        \/ RefreshCommand(p)
        \/ ClearToken(p)
        \/ ClearTokenDeleted(p)
        \/ RefreshInitGot(p)
        \/ RefreshInitSqlJs(p)
        \/ RefreshInitStored(p)
        \/ RefreshProfile(p)
        \/ RefreshUsage(p)
        \/ RefreshLegacy(p)

SpecRefresh == InitRefresh /\ [][NextRefresh]_vars

\* The timer under every handler that touches it: activation, timer ticks,
\* promptForToken, clearToken and the refreshes overlapping, the settings
\* changing, and deactivate.
InitTimer == ExtensionLoaded(RefreshFlows, {DefaultConfiguration})

NextTimer ==
    \/ OnConfigurationChanged
    \/ Deactivate
    \/ \E p \in DOMAIN call :
        \/ Activate(p)
        \/ TimerTick(p)
        \/ PromptForToken(p)
        \/ PromptForTokenStored(p)
        \/ ClearToken(p)
        \/ ClearTokenDeleted(p)
        \/ RefreshInitGot(p)
        \/ RefreshInitSqlJs(p)
        \/ RefreshInitStored(p)
        \/ RefreshProfile(p)
        \/ RefreshUsage(p)
        \/ RefreshLegacy(p)

SpecTimer == InitTimer /\ [][NextTimer]_vars

\* Quota answers for an account below its limit and for one at its limit.
AccountQuotas ==
    {payload \in FetchQuotaResponses :
        /\ payload.gpt4 \in {<<ModelUsage(<<48>>, <<>>)>>, <<ModelUsage(<<500>>, <<500>>)>>}
        /\ payload.startOfMonth = DateOf(2024, 1, 1)}

AccountsUsage(p) ==
    /\ call[p].pc = "usage_wait"
    /\ \E http \in RefreshHttp, payload \in AccountQuotas :
            Commit(p, UsageAnswered(At(World, call[p]),
                                    [NoInput EXCEPT !.http = http, !.payload = payload]),
                   "step")

\* Two accounts: the secure cache holds the token an earlier session stored for
\* one, the input box and the local sources give the token of another.  Refresh
\* cycles, promptForToken and clearToken overlap.
InitAccounts ==
    /\ sessionToken = NullStr
    /\ userIdOf = UserIds
    /\ userId = NullStr
    /\ secret = TokEncoded
    /\ detectedBillingModel = NoModel
    /\ lastDetect = NoDetect
    /\ call = [p \in RefreshFlows |-> IdleFlow]
    /\ fnArg = NullStr
    /\ fnRes = NullStr
    /\ fnPc = "unused"
    /\ refreshTimer = <<>>
    /\ cachedUsageData = <<>>
    /\ cachedCombinedData = <<>>
    /\ statusBarItem = LoadingItem
    /\ configuration = DefaultConfiguration
    /\ history = NoHistory

NextAccounts ==
    \E p \in DOMAIN call :
        \/ Activate(p)
        \/ RefreshCommand(p)
        \/ PromptForToken(p)
        \/ PromptForTokenStored(p)
        \/ ClearToken(p)
        \/ ClearTokenDeleted(p)
        \/ RefreshInitGot(p)
        \/ RefreshInitSqlJs(p)
        \/ RefreshInitStored(p)
        \/ RefreshProfile(p)
        \/ AccountsUsage(p)
        \/ RefreshTeams(p)
        \/ RefreshSpend(p)
        \/ RefreshEventsAnswered(p)
        \/ RefreshLegacy(p)

SpecAccounts == InitAccounts /\ [][NextAccounts]_vars

-----------------------------------------------------------------------------
(* Properties of the extension's handlers *)

\* C26: whenever the refresh timer runs, its period is the configured refresh
\* interval and is at least 60 seconds, whatever the configured value and
\* whichever handler started or restarted the timer.
C26_TimerPeriodIsIntervalOfAtLeastAMinute ==
    refreshTimer # <<>> =>
        /\ refreshTimer[1] = configuration.refreshInterval * 1000
        /\ refreshTimer[1] >= 60 * 1000

\* C28, as stated: once clearToken has completed, and until a token is set or
\* an initialization runs, the session credential, the account id, the
\* billing-model cache and (its delete having succeeded) the secure cache stay
\* empty, whatever answers of a cycle that was in flight arrive.
C28_ClearedStaysEmpty ==
    history.cleared =>
        /\ sessionToken = NullStr
        /\ userId = NullStr
        /\ detectedBillingModel = NoModel
        /\ history.deleted => secret = NullStr

\* C28, amended: once clearToken has completed, and until a token is set or an
\* initialization runs, the session credential, the account id and (its delete
\* having succeeded) the secure cache stay empty, whatever answers of a cycle
\* that was in flight arrive; the billing-model cache need not.
C28_ClearedCredentialsStayEmpty ==
    history.cleared =>
        /\ sessionToken = NullStr
        /\ userId = NullStr
        /\ history.deleted => secret = NullStr

\* clearToken has completed while a cycle was waiting for the profile, and the
\* profile has arrived since and is cached.
C28_Witness ==
    /\ history.cleared
    /\ history.deleted
    /\ detectedBillingModel # NoModel
    /\ sessionToken = NullStr
    /\ \E p \in DOMAIN call : call[p].op \in {"activate", "refreshUsageData"}
                                /\ call[p].pc = "done"

\* C29: once every handler has returned, the last to return being a refresh
\* cycle that got a record, the status bar's cached record and the display are
\* that cycle's, whichever cycle started first.
C29_LastCompletedCycleIsShown ==
    (/\ \A p \in DOMAIN call : ~Running(call[p])
     /\ history.last # <<>>
     /\ history.last[1].outcome = "success")
        => /\ cachedCombinedData = <<history.last[1].response.data[1]>>
           /\ statusBarItem = CombinedItem(history.last[1].response.data[1])

\* Two cycles were in flight together and both got a record; the one that
\* started first returned last, and its record is the one kept.
C29_Witness ==
    /\ \A p \in DOMAIN call : call[p].pc = "done" /\ call[p].op = "refreshUsageData"
                                /\ call[p].outcome = "success"
    /\ \E p, q \in DOMAIN call : call[p].seq < call[q].seq
                                /\ history.last # <<>>
                                /\ history.last[1].seq = call[p].seq
    /\ cachedCombinedData = <<history.last[1].response.data[1]>>

\* The refresh cycle of handler p ends in failure in this step.
CycleFails(p) ==
    /\ Running(call[p])
    /\ call[p].cycle
    /\ call[p].began # <<>>
    /\ call'[p].outcome = "failure"

\* C30, as stated: a refresh cycle that ends in failure leaves the session
\* credential, the account id, the billing-model cache, cachedUsageData and the
\* status bar's cached record as they were when it started.
C30_FailedCycleLeavesEveryCache ==
    [][\A p \in DOMAIN call :
            CycleFails(p) =>
                /\ sessionToken' = call[p].began[1].sessionToken
                /\ userId' = call[p].began[1].userId
                /\ detectedBillingModel' = call[p].began[1].detectedBillingModel
                /\ cachedUsageData' = call[p].began[1].cachedUsageData
                /\ cachedCombinedData' = call[p].began[1].cachedCombinedData]_vars

\* C30, amended: a refresh cycle that ends in failure leaves cachedUsageData
\* and the status bar's cached record as they were when it started; the
\* session credential, the account id and the billing-model cache it may have
\* written.
C30_FailedCycleLeavesUsageCaches ==
    [][\A p \in DOMAIN call :
            CycleFails(p) =>
                /\ cachedUsageData' = call[p].began[1].cachedUsageData
                /\ cachedCombinedData' = call[p].began[1].cachedCombinedData]_vars

\* A cycle has ended in failure after it cached the billing model, and the
\* record of an earlier cycle is still there.
C30_Witness ==
    \E p \in DOMAIN call :
        /\ call[p].pc = "done"
        /\ call[p].op = "refreshUsageData"
        /\ call[p].outcome = "failure"
        /\ detectedBillingModel # NoModel
        /\ cachedCombinedData # <<>>
        /\ cachedUsageData # <<>>

\* How far a refresh cycle has got, by the await it is at: the initialization
\* (secure cache, database, store), the profile, the quota and its team
\* requests, the events, the legacy quota and its team requests, the return.
Stage(pc) ==
    CASE pc = "init_get"          -> 1
      [] pc = "init_sqljs"        -> 2
      [] pc = "init_store"        -> 3
      [] pc = "profile_wait"      -> 4
      [] pc = "usage_wait"        -> 5
      [] pc = "teams_wait"        -> 6
      [] pc = "spend_wait"        -> 7
      [] pc = "events_wait"       -> 8
      [] pc = "legacy_wait"       -> 9
      [] pc = "legacy_teams_wait" -> 10
      [] pc = "legacy_spend_wait" -> 11
      [] OTHER                    -> 12

\* The refresh cycle of handler p ends in this step.
CycleEnds(p) == call[p].cycle /\ ~call'[p].cycle

ErrorTexts == {<<"$(warning) Cursor Usage">>, <<"$(key) Cursor: Set Token">>}

\* C31: a refresh cycle goes through its awaits in one order, initialization,
\* profile, quota, events, never back; while the events request is out the
\* quota response is in hand; and the cycle ends either with its record in the
\* status bar or with the error or set-token text there, never both or neither.
C31_CycleIsSequentialAndEndsOneWay ==
    [][\A p \in DOMAIN call :
            /\ (call[p].cycle /\ call'[p] # call[p])
                    => Stage(call'[p].pc) > Stage(call[p].pc)
            /\ (call[p].pc # "events_wait" /\ call'[p].pc = "events_wait")
                    => /\ call[p].pc \in {"usage_wait", "teams_wait", "spend_wait"}
                       /\ call'[p].usageResponse # NoResponse
            /\ CycleEnds(p)
                    => /\ call'[p].outcome \in {"success", "failure"}
                       /\ history'.last # <<>>
                       /\ call'[p].outcome = "success"
                            <=> /\ history'.last[1].response.success
                                /\ history'.last[1].response.data # <<>>
                                /\ cachedCombinedData' = <<history'.last[1].response.data[1]>>
                                /\ statusBarItem'
                                        = CombinedItem(history'.last[1].response.data[1])
                       /\ call'[p].outcome = "failure"
                            <=> statusBarItem'.text \in ErrorTexts]_vars

\* A cycle that re-initialized, asked for the quota and then for the events
\* has ended with a usage-based record in the status bar.
C31_Witness ==
    \E p \in DOMAIN call :
        /\ call[p].pc = "done"
        /\ call[p].op = "refreshUsageData"
        /\ call[p].outcome = "success"
        /\ refreshTimer # <<>>
        /\ history.last # <<>>
        /\ history.last[1].response.data[1].billingType = "usage-based"
        /\ history.last[1].response.data[1].usageBased # <<>>
        /\ cachedCombinedData = <<history.last[1].response.data[1]>>

\* C33: in every state, whichever handlers are in flight, the account id is
\* the one extractUserId derives from the session token, null with no token
\* and with a token that has none; and the service is authenticated exactly
\* when the token and the id derived from it are both not null.
C33_IdentityMatchesCredential ==
    /\ userId = userIdOf[sessionToken]
    /\ sessionToken = NullStr => userId = NullStr
    /\ Authenticated(World) <=> (sessionToken # NullStr /\ userIdOf[sessionToken] # NullStr)

\* A cycle that sent its requests under the stored token of one account is in
\* flight, and promptForToken has put the token of the other account in place.
C33_Witness ==
    \E p, q \in DOMAIN call :
        /\ call[p].cycle
        /\ call[p].sent = {TokEncoded}
        /\ call[q].op = "promptForToken"
        /\ sessionToken = TokCookie
        /\ userId = userIdOf[TokCookie]
        /\ userId # userIdOf[TokEncoded]
        /\ Authenticated(World)

\* setSessionToken runs in this step of handler p, up to its  await secrets.store .
SetsSessionToken(p) == call[p].pc # "set_store" /\ call'[p].pc = "set_store"

\* C34, as stated: whenever the billing-model cache is not empty, its value was
\* detected from the answer to a profile request sent under the session token
\* of the moment.
C34_CachedModelIsOfCurrentCredential ==
    detectedBillingModel # NoModel => history.detectedFor = sessionToken

\* C34, amended: whenever the billing-model cache is not empty, its value was
\* detected from the answer to a profile request sent under a session token
\* with an account id, the token of that moment; setSessionToken leaves the
\* cache as it is, so the cached model can be that of the token replaced.
C34_CachedModelIsOfSomeCredential ==
    /\ [](detectedBillingModel # NoModel
            => /\ history.detectedFor # NullStr
               /\ TruthyStr(userIdOf[history.detectedFor]))
    /\ [][\A p \in DOMAIN call :
            SetsSessionToken(p) => detectedBillingModel' = detectedBillingModel]_vars

\* The billing model was detected under the stored token of one account, and
\* promptForToken has since put the token of another account in place.
C34_Witness ==
    /\ detectedBillingModel # NoModel
    /\ history.detectedFor = TokEncoded
    /\ sessionToken = TokCookie
    /\ userId = userIdOf[TokCookie]
    /\ \A p \in DOMAIN call : ~Running(call[p])
    /\ \E p \in DOMAIN call : call[p].op = "promptForToken" /\ call[p].outcome = "success"

\* The awaits of an HTTP answer.
WaitPcs ==
    {"profile_wait", "usage_wait", "teams_wait", "spend_wait", "events_wait",
     "legacy_wait", "legacy_teams_wait", "legacy_spend_wait"}

\* Handler p sends a request in this step.
Sends(p) == call'[p].pc \in WaitPcs /\ call'[p].pc # call[p].pc

\* C35, as stated: the requests of one refresh cycle all go out under one
\* session token, whatever promptForToken or clearToken does meanwhile.
C35_CycleUsesOneCredential ==
    \A p \in DOMAIN call : call[p].cycle => Cardinality(call[p].sent) <= 1

\* C35, amended: each request of a refresh cycle goes out under the session
\* token of the moment it is sent, so the requests of a cycle share one token
\* as long as no handler replaces it while the cycle is in flight.
C35_RequestUsesCredentialOfTheMoment ==
    [][\A p \in DOMAIN call :
            Sends(p) => /\ sessionToken' \in call'[p].sent
                        /\ call'[p].sent \subseteq call[p].sent \cup {sessionToken'}]_vars

\* A cycle asked for the profile under the token of one account and for the
\* quota under the token of the other; its combined record is made and it
\* waits for the legacy quota.
C35_Witness ==
    \E p \in DOMAIN call :
        /\ call[p].cycle
        /\ call[p].pc = "legacy_wait"
        /\ call[p].sent = {TokEncoded, TokCookie}
        /\ call[p].response.success
        /\ userIdOf[TokEncoded] # userIdOf[TokCookie]

\* C36: every request goes out under a session token that is not null, read
\* when the request is sent: with the token nulled by clearCredentials a cycle
\* in flight sends nothing more, the team requests included.
C36_NoRequestWithoutCredential ==
    /\ [](\A p \in DOMAIN call : NullStr \notin call[p].sent)
    /\ [][\A p \in DOMAIN call : Sends(p) => sessionToken' # NullStr]_vars

\* clearToken ran and returned while a cycle was waiting for an answer; the
\* cycle went on without a token, sent nothing more and has ended since.
C36_Witness ==
    /\ history.cleared
    /\ sessionToken = NullStr
    /\ history.last # <<>>
    /\ history.last[1].outcome = "success"
    /\ \E p \in DOMAIN call :
            /\ call[p].seq = history.last[1].seq
            /\ call[p].pc = "done"

\* C37: the refresh timer runs only while the service is authenticated: with
\* no token set and no initialization succeeded, after clearToken or from the
\* start, no timer is running, a change of the settings notwithstanding.
C37_TimerOnlyWhenAuthenticated ==
    refreshTimer # <<>> => Authenticated(World)

\* C38: at most one interval timer runs at any time, and a timer that runs is
\* the one refreshTimer refers to, whatever activation, changes of the
\* settings, promptForToken, refreshes, clearToken and deactivate have done.
C38_OneTimerAndItIsReferenced ==
    /\ history.live <= 1
    /\ history.live = 1 => refreshTimer # <<>> /\ history.armed

\* deactivate was called while the activation was in flight; the activation
\* went on and started the one timer that runs.
C38_Witness ==
    /\ history.deactivated
    /\ history.live = 1
    /\ refreshTimer # <<>>
    /\ \E p \in DOMAIN call : call[p].op = "activate" /\ call[p].pc = "done"

\* C39: once clearToken has completed, and until a token is set or an
\* initialization runs, no usage record is left: cachedUsageData is undefined
\* and the status bar's cached record, which showUsageDetails renders, is null.
C39_NoRecordAfterClear ==
    history.cleared => cachedUsageData = <<>> /\ cachedCombinedData = <<>>

-----------------------------------------------------------------------------
(* What reaches the secure cache *)

\* The calls that have issued secrets.store and await its completion.
StorePcs == {"init_store", "set_store"}

\* Call p has just issued secrets.store .
IssuesStore(p) == call[p].pc \notin StorePcs /\ call'[p].pc \in StorePcs

\* C40: the secure cache is only ever written with a credential from which a
\* non-empty account id was derived: every secrets.store the service issues
\* (initialize after auto-detection, setSessionToken) carries such a credential,
\* and the slot changes only to such a credential or, on logout, to nothing.
C40_OnlyCredentialsWithAccountIdAreCached ==
    [][/\ \A p \in Procs :
            IssuesStore(p) =>
                /\ TruthyStr(userIdOf[call'[p].tok])
                /\ call'[p].tok = sessionToken'
                /\ userId' = userIdOf[call'[p].tok]
       /\ secret' # secret =>
            \/ secret' = NullStr
            \/ /\ TruthyStr(userIdOf[secret'])
               /\ \E p \in Procs : IssuesStore(p) /\ call'[p].tok = secret']_vars

\* A credential without an account id sits in the slot, auto-detection found
\* one with an account id, and the write replaced the slot with it.
C40_Witness ==
    \E p \in Procs :
        /\ call[p].op = "initialize"
        /\ call[p].pc = "init_store"
        /\ call[p].io = "ok"
        /\ ~TruthyStr(userIdOf[call[p].stored])
        /\ TruthyStr(call[p].stored)
        /\ secret = call[p].tok
        /\ TruthyStr(userIdOf[secret])
====
